---- MODULE Spec2Model ----
(***************************************************************************)
(* A model of the concurrent recording engine of the TikTok live recorder: *)
(*   - utils/resolution_detector.py : ResolutionDetector                   *)
(*   - core/multi_stream_recorder.py: MultiStreamRecorder                  *)
(*   - utils/config_manager.py      : ConfigManager                        *)
(*   - core/tiktok_recorder.py      : TikTokRecorder.start_recording       *)
(*                                                                         *)
(* Six specifications share the variables:                                 *)
(*   DetSpec : one ResolutionDetector driven by an arbitrary client        *)
(*   Spec    : one task thread running recording sessions (multi-stream    *)
(*             or single-stream), its detector thread, and the shutdown    *)
(*   RunSpec : MultiStreamRecorder.run with several target threads         *)
(*   AutoSpec: one task in automatic mode (multi-stream or single-stream), *)
(*             its liveness checks, waits and successive sessions          *)
(*   ShutdownSpec: MultiStreamRecorder.run and stop_all_recordings, the    *)
(*             recording threads reduced to alive or not (FairShutdownSpec *)
(*             adds that the main thread is scheduled and time passes)     *)
(*   ConfigSpec: the setting lookups of ConfigManager over the settings    *)
(*             files                                                       *)
(*                                                                         *)
(* Time is discrete (seconds).  Computation steps take no time.  In Spec    *)
(* time passes in the blocking calls of the task thread (network, probe,   *)
(* join, sleep), which are split in a begin and an end step where another  *)
(* thread may interleave; in RunSpec, where several threads block at once, *)
(* the clock ticks on its own and a sleep waits for its deadline; in       *)
(* AutoSpec only the seconds in which output names are made are kept.      *)
(***************************************************************************)
EXTENDS Integers, Sequences, FiniteSets, TLC

(***************************************************************************)
(* Bounds of the model                                                     *)
(***************************************************************************)
\* monitor threads one detector object can have spawned and still alive
MaxThreads == 2
\* probes recorded in the history of the detector harness
MaxProbes == 4
\* wall clock values 0..MaxTime
MaxTime == 3
\* the second of the minute at which the clock starts
StartSecond == 58
\* bytes one session may receive from download_live_stream
MaxBytes == 2
\* largest chunk (bytes) download_live_stream yields
MaxChunk == 2
\* recording sessions one task may open (the first plus the restarts)
MaxSessions == 2

(***************************************************************************)
(* Program constants                                                       *)
(***************************************************************************)
\* resolution_detector.py:45  subprocess.run(..., timeout=10)
ProbeTimeout == 10
\* resolution_detector.py:112 self.monitor_thread.join(timeout=5)
JoinTimeout == 5
\* resolution_detector.py:119 max_consecutive_failures = 3
max_consecutive_failures == 3
\* multi_stream_recorder.py:380 / tiktok_recorder.py:311  time.sleep(2)
RestartPause == 2

None == <<>>
R720 == <<1280, 720>>
R1080 == <<1920, 1080>>

\* What ffprobe can answer: <<kind, width, height>>
\*   "ok"      return code 0 and a stream with width/height
\*   "nostream" return code 0, empty stream list
\*   "rc"      non-zero return code
\*   "timeout" subprocess.TimeoutExpired
RawProbes ==
    { <<"ok", 1280, 720>>, <<"ok", 1920, 1080>>, <<"ok", 0, 720>>,
      <<"nostream", 0, 0>>, <<"rc", 0, 0>>, <<"timeout", 0, 0>> }

\* ResolutionDetector.get_current_resolution: (width, height) or None
get_current_resolution(raw) ==
    IF raw[1] = "ok" /\ raw[2] # 0 /\ raw[3] # 0
    THEN <<raw[2], raw[3]>>
    ELSE None

VARIABLES
    harness,                    \* which program runs: "detector", "multi", "single",
                                \* "run", "shutdown", "auto_multi", "auto_single",
                                \* "config"
    now,                        \* wall clock, seconds
    \* ---- ResolutionDetector object
    is_monitoring,
    det_stop_event,             \* ResolutionDetector._stop_event
    current_resolution,
    monitor_thread,             \* 0 (None) or the id of the last thread spawned
    resolution_change_callback, \* "none", "client", "on_resolution_change"
    mon,                        \* monitor threads: id -> [pc, fails, raised]; raised is
                                \* the number of the first callback invocation that
                                \* raised an exception in the thread, 0 for none
    \* ---- client of the detector harness
    cl_pc,                      \* "idle", "starting", "noop", "joining"
    \* ---- the recording session's closure, shared with the callback
    restart_requested,          \* restart_requested[0]
    cfg_restart,                \* should_restart_on_resolution_change(user, room_id)
    \* ---- MultiStreamRecorder
    stop_event,                 \* MultiStreamRecorder.stop_event
    ntargets,                   \* len(self.targets)
    run,                        \* the main thread in MultiStreamRecorder.run
    tasks,                      \* the recording threads of the run, by target
    auto,                       \* one task in automatic mode (AutoSpec)
    lookup,                     \* one lookup of a setting in a ConfigManager (ConfigSpec)
    \* ---- one task thread and the recording session it runs
    sess,                       \* the task thread's position and the session's locals
    orphans,                    \* threads of earlier sessions' detectors still alive
    \* ---- history (observations, not program state)
    outcome,                    \* why the streaming loop of the session ended, or
                                \* "not_live" for a task that found its target offline
    opened,                     \* output files opened: [path, restart (by the restart
                                \* logic), prev (the outcome of the session before)]
    samples,                    \* probes applied: <<"init" | "loop", result>>
    calls,                      \* client callback invocations <<old, new>>; of a
                                \* session's closure, the first one it ignored
    stop_returned,              \* a stop_monitoring call has returned, no start since
    returned_alive,             \* ... and its thread was still running then
    cb_after_stop               \* a callback was invoked after stop_monitoring returned

detVars == <<is_monitoring, det_stop_event, current_resolution, monitor_thread,
             resolution_change_callback, mon>>
histVars == <<samples, calls, stop_returned, returned_alive, cb_after_stop>>
\* the session's variables, but restart_requested and cfg_restart
sessVars == <<sess, orphans, outcome, opened>>
\* the run of MultiStreamRecorder, but stop_event
runVars == <<ntargets, run, tasks, auto, lookup>>
vars == <<harness, now, detVars, cl_pc, restart_requested, cfg_restart, histVars,
          stop_event, runVars, sessVars>>

Threads == 1..MaxThreads
NoThread == [pc |-> "none", fails |-> 0, raised |-> 0]
Alive(t) == mon[t].pc \in {"loop", "probing", "wait"}
FreeThreads == {t \in Threads : ~Alive(t)}
FirstFree == CHOOSE t \in FreeThreads : \A u \in FreeThreads : t <= u

(***************************************************************************)
(* ResolutionDetector                                                      *)
(***************************************************************************)
\* ResolutionDetector.__init__
DetectorInit ==
    /\ is_monitoring = FALSE
    /\ det_stop_event = FALSE
    /\ current_resolution = None
    /\ monitor_thread = 0
    /\ resolution_change_callback = "none"
    /\ mon = [t \in Threads |-> NoThread]

\* a mutant of on_resolution_change: the configuration is not consulted
on_resolution_change_Always(old, new) ==
    restart_requested' = TRUE

\* on_resolution_change(old, new), the closure of a recording session:
\* raises the restart flag when the configuration enables the restart.
on_resolution_change(old, new) ==
    restart_requested' = (restart_requested \/ cfg_restart)

\* self.resolution_change_callback(old_resolution, new_resolution), lines 140-144.
\* The harness' callback records its arguments; of the closure of a session
\* the first invocation made with the restart disabled is kept.
InvokeCallback(old, new) ==
    /\ cb_after_stop' = (cb_after_stop \/ (harness = "detector" /\ stop_returned))
    /\ CASE resolution_change_callback = "on_resolution_change" ->
              /\ on_resolution_change(old, new)
              /\ calls' = IF ~cfg_restart /\ calls = <<>> THEN << <<old, new>> >>
                                                          ELSE calls
         [] resolution_change_callback = "client" ->
              /\ calls' = Append(calls, <<old, new>>)
              /\ UNCHANGED restart_requested
         [] OTHER -> UNCHANGED <<calls, restart_requested>>

\* The history of probes is kept for the detector harness only.
Record(kind, r) ==
    samples' = IF harness = "detector" THEN Append(samples, <<kind, r>>) ELSE samples
CanRecord == harness = "detector" => Len(samples) < MaxProbes

\* a mutant of AlreadyMonitoring: the guard of start_monitoring is lost
AlreadyMonitoring_Ignored(m) == FALSE

\* start_monitoring, line 78: if self.is_monitoring
AlreadyMonitoring(m) == m

\* start_monitoring, lines 78-84: the guard and the three assignments.
start_monitoring_begin(cb) ==
    /\ ~AlreadyMonitoring(is_monitoring)
    /\ resolution_change_callback' = cb
    /\ is_monitoring' = TRUE
    /\ det_stop_event' = FALSE
    /\ stop_returned' = FALSE
    /\ UNCHANGED <<current_resolution, monitor_thread, mon>>

\* start_monitoring, lines 87-101: the initial probe's result and the thread.
start_monitoring_end(raw) ==
    LET initial_resolution == get_current_resolution(raw) IN
    /\ current_resolution' =
          IF initial_resolution # None THEN initial_resolution ELSE current_resolution
    /\ monitor_thread' = FirstFree
    /\ mon' = [mon EXCEPT ![FirstFree] = [pc |-> "loop", fails |-> 0, raised |-> 0]]
    /\ Record("init", initial_resolution)
    /\ UNCHANGED <<is_monitoring, det_stop_event, resolution_change_callback>>

\* stop_monitoring, lines 105-109.
stop_monitoring_begin ==
    /\ is_monitoring
    /\ is_monitoring' = FALSE
    /\ det_stop_event' = TRUE
    /\ UNCHANGED <<current_resolution, monitor_thread, resolution_change_callback, mon>>

\* monitor_thread.join(timeout=5) can give up only while the thread is inside
\* a call that may last longer than the timeout: the probe (timeout=10).
JoinMayReturn ==
    \/ monitor_thread = 0
    \/ ~Alive(monitor_thread)
    \/ (JoinTimeout < ProbeTimeout /\ mon[monitor_thread].pc = "probing")

\* stop_monitoring returns (line 106, or lines 111-114).
stop_monitoring_return ==
    /\ stop_returned' = TRUE
    /\ returned_alive' =
          (returned_alive \/ (harness = "detector" /\ monitor_thread # 0
                                 /\ Alive(monitor_thread)))

\* a mutant of ResolutionChanged: the test for an existing baseline is lost
ResolutionChanged_NoBaselineTest(cur, new) == new # cur

\* _monitor_loop, lines 129-130:
\*   self.current_resolution and new_resolution != self.current_resolution
ResolutionChanged(cur, new) == cur # None /\ new # cur

\* _monitor_loop, line 121: the loop test, for the thread in state st;
\* line 167 when it fails.
LoopTest(t, st) ==
    IF det_stop_event
    THEN /\ is_monitoring' = FALSE
         /\ mon' = [mon EXCEPT ![t] = NoThread]
    ELSE /\ mon' = [mon EXCEPT ![t] = [st EXCEPT !.pc = "probing"]]
         /\ UNCHANGED is_monitoring

\* the thread starts: the first loop test
MonLoopTest(t) ==
    /\ mon[t].pc = "loop"
    /\ LoopTest(t, mon[t])
    /\ UNCHANGED <<det_stop_event, current_resolution, monitor_thread,
                   resolution_change_callback>>
    /\ UNCHANGED <<harness, now, cl_pc, restart_requested, cfg_restart, histVars>>
    /\ UNCHANGED <<stop_event, runVars, sessVars>>

\* The callback of the detector harness may raise an exception; the closure of
\* a recording session is taken not to.
CallbackMayRaise == IF resolution_change_callback = "client" THEN BOOLEAN ELSE {FALSE}

\* a mutant of CallbackError: the exception ends the thread (as the outer
\* handler of the loop does, lines 163-167)
CallbackError_Fatal(st) == [st EXCEPT !.pc = "none"]

\* _monitor_loop, lines 141-144: the exception of the callback is logged, the
\* thread goes on to the wait of line 161
CallbackError(st) == [st EXCEPT !.pc = "wait"]

\* a mutant of FlagAfterMonitorStopped: the monitor that gives up ends the
\* session as a resolution change does
FlagAfterMonitorStopped_Raised(flag) == TRUE

\* _monitor_loop, lines 156-158, 167: the loop that gives up logs a warning and
\* clears is_monitoring; the restart flag of the session is not touched
FlagAfterMonitorStopped(flag) == flag

\* a mutant of FailuresAfterSuccess: the count is kept
FailuresAfterSuccess_Kept(n) == n

\* _monitor_loop, line 126: consecutive_failures = 0
FailuresAfterSuccess(n) == 0

\* _monitor_loop, lines 123-158: one probe returns and is handled.
MonProbe(t, raw) ==
    LET new_resolution == get_current_resolution(raw) IN
    /\ mon[t].pc = "probing"
    /\ CanRecord
    /\ Record("loop", new_resolution)
    /\ IF new_resolution # None
       THEN /\ IF ResolutionChanged(current_resolution, new_resolution)
               THEN /\ current_resolution' = new_resolution
                    /\ InvokeCallback(current_resolution, new_resolution)
                    /\ \E raises \in CallbackMayRaise :
                          IF raises
                          THEN /\ mon' = [mon EXCEPT ![t] =
                                         CallbackError([mon[t] EXCEPT !.fails = FailuresAfterSuccess(@),
                                                           !.raised = IF @ = 0 THEN Len(calls') ELSE @])]
                               /\ is_monitoring' = (is_monitoring /\ mon'[t].pc # "none")
                          ELSE /\ mon' = [mon EXCEPT ![t].pc = "wait",
                                                     ![t].fails = FailuresAfterSuccess(@)]
                               /\ UNCHANGED is_monitoring
               ELSE /\ current_resolution' =
                         IF current_resolution = None THEN new_resolution
                                                      ELSE current_resolution
                    /\ mon' = [mon EXCEPT ![t].pc = "wait",
                                          ![t].fails = FailuresAfterSuccess(@)]
                    /\ UNCHANGED <<is_monitoring, calls, restart_requested, cb_after_stop>>
       ELSE /\ IF mon[t].fails + 1 >= max_consecutive_failures
               THEN /\ mon' = [mon EXCEPT ![t] = NoThread]
                    /\ is_monitoring' = FALSE
                    /\ restart_requested' = FlagAfterMonitorStopped(restart_requested)
               ELSE /\ mon' = [mon EXCEPT ![t].pc = "wait", ![t].fails = @ + 1]
                    /\ UNCHANGED <<is_monitoring, restart_requested>>
            /\ UNCHANGED <<current_resolution, calls, cb_after_stop>>
    /\ UNCHANGED <<det_stop_event, monitor_thread, resolution_change_callback>>
    /\ UNCHANGED <<harness, now, cl_pc, cfg_restart, stop_returned, returned_alive>>
    /\ UNCHANGED <<stop_event, runVars, sessVars>>

\* _monitor_loop, line 161: self._stop_event.wait(self.check_interval) returns
\* (the event was set, or the interval has passed), and the loop test follows.
MonWait(t) ==
    /\ mon[t].pc = "wait"
    /\ LoopTest(t, mon[t])
    /\ UNCHANGED <<det_stop_event, current_resolution, monitor_thread,
                   resolution_change_callback>>
    /\ UNCHANGED <<harness, now, cl_pc, restart_requested, cfg_restart, histVars>>
    /\ UNCHANGED <<stop_event, runVars, sessVars>>

MonitorThread ==
    \E t \in Threads :
        \/ MonLoopTest(t)
        \/ \E raw \in RawProbes : MonProbe(t, raw)
        \/ MonWait(t)

\* The task thread's record:
\*   pc             where the thread is
\*   depth          nesting of the start_recording calls (restarts so far)
\*   duration       recorder.duration, 0 for None
\*   file_open      the with-block's out_file is open
\*   buffer         len(buffer)
\*   written        bytes written to out_file in this session
\*   received       bytes of the chunks download_live_stream yielded in this session
\*   appended       bytes appended to the buffer in this session
\*   chunk          len(chunk) of the chunk in hand, 0 for none
\*   stop_recording, start_time   the locals of these names
\*   recording_start_time         the clock when the session's file was opened
\*                                (lines 278; 179)
\*   after_finally  where control goes after the finally block
NoSession(p, d) ==
    [pc |-> p, depth |-> 0, duration |-> d, file_open |-> FALSE, buffer |-> 0,
     written |-> 0, received |-> 0, appended |-> 0, chunk |-> 0, stop_recording |-> FALSE,
     start_time |-> 0, recording_start_time |-> 0, after_finally |-> "while"]

\* The main thread's record:
\*   pc         where the thread is
\*   i          threads started (len(self.recording_threads))
\*   level      the handler stop_all_recordings was called from (0: not called)
\*   j          the thread stop_all_recordings joins next
\*   wake       the deadline of the sleep or join it is in, 0 for none
\*   total_duration, total_size   what _display_final_summary read of each
\*              entry's duration (line 473) and file_size (line 474)
\* and what is observed of it:
\*   summaries  final summaries emitted
MainThreadAt(p) ==
    [pc |-> p, i |-> 0, level |-> 0, j |-> 0, wake |-> 0,
     total_duration |-> <<>>, total_size |-> <<>>, summaries |-> 0]

\* MultiStreamRecorder.run is not called
RunIdle ==
    /\ run = MainThreadAt("none")
    /\ tasks = <<>>

\* The task of AutoSpec:
\*   pc        where the thread is
\*   depth     nesting of the start_recording calls
\*   flag      restart_requested[0] of the session that ended
\*   ticks     time.sleep(1) calls finished in the current recheck wait
\* and what is observed of it:
\*   nopen     output files open
\*   nfiles    output files opened so far
\*   notlive   liveness checks that reported not live
\*   waits     recheck waits completed
\*   clean     only the not-live outcome has reached the loop's handlers
\*   post_failed   the post-processing of the last session failed and the
\*                 failure was logged (multi-stream)
\*   opened_at     for each output file, the second in which its name was
\*                 made, counted from the first one; a later second is
\*                 represented by the next one
\*   later     the wall clock has left the second of the last file
\*   last_exc, last_src   the last exception that reached them, and the call
\*                        that raised it
\* and the configuration:
\*   disk      the settings persisted in config/user_settings.json
\*   config    ConfigManager.config of the manager the sessions use: the
\*             settings it loaded when it was constructed
\*   at_open   the settings that were persisted when the session's file was
\*             opened (observed)
\*   nchanges  changes persisted so far (observed)
DefaultConfig == [restart_on_resolution_change |-> FALSE, resolution_check_interval |-> 5]
OtherConfig == [restart_on_resolution_change |-> TRUE, resolution_check_interval |-> 10]
Configs == {DefaultConfig, OtherConfig}

NoAuto(p) ==
    [pc |-> p, depth |-> 0, flag |-> FALSE, ticks |-> 0, nopen |-> 0, nfiles |-> 0,
     notlive |-> 0, waits |-> 0, clean |-> TRUE, last_exc |-> "none", last_src |-> "none",
     post_failed |-> FALSE, opened_at |-> <<>>, later |-> FALSE,
     disk |-> DefaultConfig, config |-> DefaultConfig, at_open |-> DefaultConfig,
     nchanges |-> 0]

\* no automatic-mode task runs, no setting is looked up
AutoIdle ==
    /\ auto = NoAuto("none")
    /\ lookup = [pc |-> "none"]

\* no task thread runs
SessionIdle ==
    /\ sess = NoSession("none", 0)
    /\ orphans = 0
    /\ outcome = "none"
    /\ opened = <<>>

(***************************************************************************)
(* Strings are sequences of characters, so that a concatenation can be     *)
(* ambiguous where the code's is.                                          *)
(***************************************************************************)
Digits == <<"0", "1", "2", "3", "4", "5", "6", "7", "8", "9">>
Digit(d) == Digits[d + 1]

\* str(n) for n >= 0
RECURSIVE Decimal(_)
Decimal(n) == IF n < 10 THEN <<Digit(n)>> ELSE Decimal(n \div 10) \o <<Digit(n % 10)>>

\* "%02d"
TwoDigits(n) == <<Digit((n \div 10) % 10), Digit(n % 10)>>

\* time.strftime("%Y.%m.%d_%H-%M-%S", time.localtime()) at clock value t; the
\* day stands for the %Y.%m.%d part.
strftime(t) ==
    Decimal(t \div 86400) \o <<"_">> \o TwoDigits((t \div 3600) % 24) \o <<"-">>
        \o TwoDigits((t \div 60) % 60) \o <<"-">> \o TwoDigits(t % 60)

\* a mutant of stream_key: the index is left out
stream_key_NoIndex(i) == <<"S", "t", "r", "e", "a", "m", "-">>

\* f"Stream-{i+1}" for the i-th target, i counted from 1 here
stream_key(i) == <<"S", "t", "r", "e", "a", "m", "-">> \o Decimal(i)

\* lines 237-243: the output directory with a trailing separator (posix)
BaseOutput(output) ==
    IF output # <<>> /\ output[Len(output)] \notin {"/", "\\"}
    THEN output \o <<"/">>
    ELSE output

\* a mutant of OutputSuffix: the thread name is never added
OutputSuffix_None(thread_name, n) == <<>>

\* multi_stream_recorder.py line 251
OutputSuffix(thread_name, n) == IF n > 1 THEN <<"_">> \o thread_name ELSE <<>>

\* multi_stream_recorder.py lines 245-252
OutputPath(output, user, t, thread_name, n) ==
    BaseOutput(output) \o user \o <<"/">> \o <<"T", "K", "_">> \o user \o <<"_">>
        \o strftime(t) \o OutputSuffix(thread_name, n)
        \o <<"_", "f", "l", "v", ".", "m", "p", "4">>

\* tiktok_recorder.py lines 143-156
OutputPathSingle(output, user, t) ==
    BaseOutput(output) \o user \o <<"/">> \o <<"T", "K", "_">> \o user \o <<"_">>
        \o strftime(t) \o <<"_", "f", "l", "v", ".", "m", "p", "4">>

(***************************************************************************)
(* One task thread: _manual_mode_with_stop_event and                       *)
(* _start_recording_with_stop_event of MultiStreamRecorder (harness        *)
(* "multi"), manual_mode and start_recording of TikTokRecorder (harness    *)
(* "single").  The thread is Stream-1 of the run; its user is "u".         *)
(***************************************************************************)
\* buffer_size = 512 * 1024, in the model's unit of bytes
buffer_size == 2
TheUser == <<"u">>
Multi == harness = "multi"
Single == harness = "single"

\* Exceptions the platform client can raise inside the streaming try block.
\* A KeyboardInterrupt reaches the main thread only, which the single-stream
\* recorder runs on.
StreamErrors ==
    {"ConnectionError", "RequestException", "Exception"}
        \cup (IF Single THEN {"KeyboardInterrupt"} ELSE {})

\* An exception leaves the current start_recording frame: a nested (restart)
\* frame was called inside try/except Exception (lines 383-391, 314-328), so
\* the parent logs it and the task returns; the outermost one propagates to the
\* caller of the task.
Propagate(exc) ==
    IF sess.depth > 0 /\ exc # "KeyboardInterrupt" THEN "done" ELSE "failed"

\* ResolutionDetector(...) constructed for a session: a new object.  A thread
\* of the object it replaces that is still alive goes on with that object.
NewDetector ==
    /\ orphans' = orphans + Cardinality({t \in Threads : Alive(t)})
    /\ is_monitoring' = FALSE
    /\ det_stop_event' = FALSE
    /\ current_resolution' = None
    /\ monitor_thread' = 0
    /\ resolution_change_callback' = "none"
    /\ mon' = [t \in Threads |-> NoThread]

\* a thread of a replaced detector finishes its probe and leaves its loop
\* (its stop event is set); its callback writes the closure of a session that
\* has returned.
OrphanExit ==
    /\ orphans > 0
    /\ orphans' = orphans - 1
    /\ UNCHANGED <<harness, now, detVars, cl_pc, restart_requested, cfg_restart,
                   histVars, stop_event, runVars, sess, outcome, opened>>

\* A blocking call of the task thread takes some of the seconds dts.
TimePasses(dts) == \E dt \in dts : now + dt <= MaxTime /\ now' = now + dt
\* a network call, a probe, a join, a conversion: within the second or not
Blocking == TimePasses({0, 1})

\* what the task thread leaves alone when it touches neither the detector nor
\* the closure
TaskFrameT ==
    UNCHANGED <<harness, detVars, cl_pc, restart_requested, cfg_restart,
                histVars, stop_event, runVars, orphans>>
TaskFrame == TaskFrameT /\ UNCHANGED now

\* a mutant of NotLiveExit: the task checks again
NotLiveExit_Retry == "manual"

\* lines 196-199 (multi), 105-110 (single): the target is not live, manual
\* mode raises UserLiveException and the task is over
NotLiveExit == "not_live"

\* _manual_mode_with_stop_event lines 193-201; manual_mode lines 105-112
ManualMode ==
    /\ sess.pc = "manual"
    /\ \/ /\ Multi /\ stop_event
          /\ sess' = [sess EXCEPT !.pc = "done"]
          /\ UNCHANGED outcome
       \/ /\ ~(Multi /\ stop_event)
          /\ \E alive \in {"live", "not_live", "raise"} :
                /\ sess' = [sess EXCEPT !.pc =
                               CASE alive = "live" -> "s_url"
                                 [] alive = "not_live" -> NotLiveExit
                                 [] OTHER -> "failed"]
                /\ outcome' = IF alive = "not_live" THEN "not_live" ELSE outcome
    /\ UNCHANGED opened
    /\ TaskFrame

\* lines 230-232 (multi), 136-138 (single): live_url = get_live_url(room_id)
GetLiveUrl ==
    /\ sess.pc = "s_url"
    /\ \E url \in {"url", "none", "raise"} :
          sess' = [sess EXCEPT !.pc =
                      IF url = "url" THEN "s_open" ELSE Propagate("Exception")]
    /\ UNCHANGED <<outcome, opened>>
    /\ TaskFrame

\* lines 234-278 (multi), 140-186 (single): the path, the directory, the
\* detector of the session (multi), the buffer, open(output, "wb"), the locals.
OpenSession ==
    /\ sess.pc = "s_open"
    /\ Len(opened) < MaxSessions
    /\ sess' = [sess EXCEPT !.pc = "s_start", !.file_open = TRUE, !.buffer = 0,
                            !.written = 0, !.received = 0, !.appended = 0,
                            !.chunk = 0,
                            !.stop_recording = FALSE, !.start_time = now,
                            !.recording_start_time = now]
    /\ opened' = Append(opened,
          [path |-> IF Multi
                    THEN OutputPath(<<>>, TheUser, StartSecond + now, stream_key(1), ntargets)
                    ELSE OutputPathSingle(<<>>, TheUser, StartSecond + now),
           restart |-> sess.depth > 0,
           prev |-> outcome])
    /\ outcome' = "none"
    /\ restart_requested' = FALSE
    /\ stop_returned' = FALSE
    /\ calls' = <<>>
    /\ IF Multi
       THEN /\ NewDetector
            /\ cfg_restart' \in BOOLEAN      \* ConfigManager() reads the file
       ELSE UNCHANGED <<detVars, orphans, cfg_restart>>
    /\ UNCHANGED <<harness, now, cl_pc, stop_event, runVars,
                   samples, returned_alive, cb_after_stop>>

\* line 287 (multi), 194 (single): start_monitoring is called
StartMonitoring ==
    /\ sess.pc = "s_start"
    /\ IF AlreadyMonitoring(is_monitoring)
       THEN /\ sess' = [sess EXCEPT !.pc = "s_while"]
            /\ UNCHANGED <<detVars, stop_returned>>
       ELSE /\ start_monitoring_begin("on_resolution_change")
            /\ sess' = [sess EXCEPT !.pc = "s_starting"]
    /\ UNCHANGED <<harness, now, cl_pc, restart_requested, cfg_restart, stop_event,
                   runVars, orphans, outcome, opened,
                   samples, calls, returned_alive, cb_after_stop>>

\* start_monitoring returns: the initial probe is in, the thread runs
StartMonitoringEnd ==
    /\ sess.pc = "s_starting"
    /\ \E raw \in RawProbes : start_monitoring_end(raw)
    /\ sess' = [sess EXCEPT !.pc = "s_while"]
    /\ Blocking
    /\ UNCHANGED <<harness, cl_pc, restart_requested, cfg_restart, stop_event,
                   runVars, orphans, outcome, opened,
                   calls, stop_returned, returned_alive, cb_after_stop>>

\* line 289: while not stop_recording and not self.stop_event.is_set()
\* line 196: while not stop_recording
WhileTest ==
    /\ sess.pc = "s_while"
    /\ IF sess.stop_recording \/ (Multi /\ stop_event)
       THEN /\ sess' = [sess EXCEPT !.pc = "s_close"]
            /\ outcome' = IF outcome = "none" THEN "cancelled" ELSE outcome
       ELSE /\ sess' = [sess EXCEPT !.pc = "s_alive"]
            /\ UNCHANGED outcome
    /\ UNCHANGED opened
    /\ TaskFrame

\* The except clauses of the streaming try block, for an exception exc raised in
\* it by the liveness check ("alive") or by download_live_stream ("fetch"):
\* lines 344-346 (multi), 264-278 (single).
\* The outcome tells a transport error of download_live_stream ("transport")
\* from the other errors that end a multi-stream session ("error").
TransportErrors == {"ConnectionError", "RequestException"}

Except(exc, where) ==
    IF Multi \/ exc \in {"Exception", "KeyboardInterrupt"}
    THEN /\ sess' = [sess EXCEPT !.pc = "s_finally", !.after_finally = "while",
                                 !.stop_recording = TRUE, !.chunk = 0]
         /\ outcome' = CASE exc = "KeyboardInterrupt" -> "interrupt"
                          [] where = "fetch" /\ exc \in TransportErrors -> "transport"
                          [] OTHER -> "error"
    ELSE \* ConnectionError (sleeps in automatic mode), RequestException/HTTPException
         /\ \E sleeps \in (IF exc = "ConnectionError" THEN BOOLEAN ELSE {TRUE}) :
               sess' = [sess EXCEPT !.pc = IF sleeps THEN "s_handler" ELSE "s_finally",
                                    !.after_finally = "while", !.chunk = 0]
         /\ UNCHANGED outcome

\* lines 291-293 (multi), 198-203 (single): the liveness check of the loop
CheckAlive ==
    /\ sess.pc = "s_alive"
    /\ \/ /\ sess' = [sess EXCEPT !.pc = "s_fetch",
                         !.start_time = IF Single THEN now ELSE @]
          /\ UNCHANGED outcome
       \/ /\ sess' = [sess EXCEPT !.pc = "s_finally", !.after_finally = "close"]
          /\ outcome' = "offline"
       \/ \E exc \in StreamErrors : Except(exc, "alive")
    /\ UNCHANGED opened
    /\ Blocking
    /\ TaskFrameT

\* line 295 (multi), 204 (single): download_live_stream yields a chunk, ends,
\* or raises
Fetch ==
    /\ sess.pc = "s_fetch"
    /\ \/ \E c \in 1..MaxChunk :
             /\ sess.received + c <= MaxBytes
             /\ sess' = [sess EXCEPT !.pc = IF Multi THEN "s_stopchk" ELSE "s_append",
                                     !.chunk = c, !.received = @ + c]
             /\ UNCHANGED outcome
       \/ /\ sess' = [sess EXCEPT !.pc = "s_finally", !.after_finally = "while"]
          /\ UNCHANGED outcome
       \/ \E exc \in StreamErrors : Except(exc, "fetch")
    /\ UNCHANGED opened
    /\ Blocking
    /\ TaskFrameT

\* lines 296-298: the chunk in hand is not appended when the stop event is set
StopCheck ==
    /\ sess.pc = "s_stopchk"
    /\ IF stop_event
       THEN /\ sess' = [sess EXCEPT !.pc = "s_finally", !.after_finally = "while",
                                    !.stop_recording = TRUE, !.chunk = 0]
            /\ outcome' = "cancelled"
       ELSE /\ sess' = [sess EXCEPT !.pc = "s_append"]
            /\ UNCHANGED outcome
    /\ UNCHANGED opened
    /\ TaskFrame

\* a mutant of Flush: the buffer is cleared and not written
Flush_Drop(s) == [s EXCEPT !.buffer = 0]

\* out_file.write(buffer); buffer.clear()
Flush(s) == [s EXCEPT !.written = @ + s.buffer, !.buffer = 0]

\* lines 300-303 (multi), 205-210 (single)
AppendChunk ==
    /\ sess.pc = "s_append"
    /\ LET s1 == [sess EXCEPT !.buffer = @ + sess.chunk, !.appended = @ + sess.chunk,
                               !.chunk = 0, !.pc = "s_durchk"]
       IN  sess' = IF s1.buffer >= buffer_size THEN Flush(s1) ELSE s1
    /\ UNCHANGED <<outcome, opened>>
    /\ TaskFrame

\* lines 333-336 (multi), 253-256 (single)
DurationCheck ==
    /\ sess.pc = "s_durchk"
    /\ IF sess.duration # 0 /\ now - sess.start_time >= sess.duration
       THEN /\ sess' = [sess EXCEPT !.pc = "s_finally", !.after_finally = "while",
                                    !.stop_recording = TRUE]
            /\ outcome' = "duration"
       ELSE /\ sess' = [sess EXCEPT !.pc = "s_rstchk"]
            /\ UNCHANGED outcome
    /\ UNCHANGED opened
    /\ TaskFrame

\* lines 339-342 (multi), 259-262 (single)
RestartCheck ==
    /\ sess.pc = "s_rstchk"
    /\ IF restart_requested
       THEN /\ sess' = [sess EXCEPT !.pc = "s_finally", !.after_finally = "while",
                                    !.stop_recording = TRUE]
            /\ outcome' = "restart"
       ELSE /\ sess' = [sess EXCEPT !.pc = "s_fetch"]
            /\ UNCHANGED outcome
    /\ UNCHANGED opened
    /\ TaskFrame

\* tiktok_recorder.py lines 267, 270: the time.sleep of an except clause ends,
\* or a KeyboardInterrupt ends it (the clause is not inside a try of its own)
HandlerSleep ==
    /\ sess.pc = "s_handler"
    /\ \/ /\ sess' = [sess EXCEPT !.pc = "s_finally"]
          /\ UNCHANGED outcome
       \/ /\ sess' = [sess EXCEPT !.pc = "s_finally", !.after_finally = "raise"]
          /\ outcome' = "interrupt"
    /\ UNCHANGED opened
    /\ Blocking
    /\ TaskFrameT

\* lines 348-352 (multi), 280-284 (single): the finally block
Finally ==
    /\ sess.pc = "s_finally"
    /\ sess' = [Flush(sess) EXCEPT !.pc =
                    IF sess.after_finally = "while" THEN "s_while" ELSE "s_close"]
    /\ UNCHANGED <<outcome, opened>>
    /\ TaskFrame

\* the with block is left: out_file is closed
CloseFile ==
    /\ sess.pc = "s_close"
    /\ sess' = [sess EXCEPT !.file_open = FALSE,
                            !.pc = IF sess.after_finally = "raise"
                                   THEN "failed" ELSE "s_stop"]
    /\ UNCHANGED <<outcome, opened>>
    /\ TaskFrame

\* The byte counts of a session are observed until its file has been closed.
Account(s) == [s EXCEPT !.received = 0, !.written = 0, !.appended = 0]

\* line 355 (multi), 286 (single): stop_monitoring is called
StopMonitoring ==
    /\ sess.pc = "s_stop"
    /\ IF is_monitoring
       THEN /\ stop_monitoring_begin
            /\ sess' = [Account(sess) EXCEPT !.pc = "s_joining"]
            /\ UNCHANGED <<stop_returned, returned_alive>>
       ELSE /\ stop_monitoring_return
            /\ sess' = [Account(sess) EXCEPT !.pc = "s_status"]
            /\ UNCHANGED detVars
    /\ UNCHANGED <<harness, now, cl_pc, restart_requested, cfg_restart, stop_event,
                   runVars, orphans, outcome, opened, samples, calls, cb_after_stop>>

\* the join of stop_monitoring ends and stop_monitoring returns
StopMonitoringEnd ==
    /\ sess.pc = "s_joining"
    /\ JoinMayReturn
    /\ stop_monitoring_return
    /\ sess' = [sess EXCEPT !.pc = "s_status"]
    /\ Blocking
    /\ UNCHANGED <<harness, detVars, cl_pc, restart_requested, cfg_restart,
                   stop_event, runVars, orphans, outcome, opened,
                   samples, calls, cb_after_stop>>

\* lines 357-373 (multi): the final status and the post-processing, whose
\* exceptions are logged; lines 288-304 (single): they propagate
PostProcess ==
    /\ sess.pc = "s_status"
    /\ \E ok \in BOOLEAN :
          sess' = [sess EXCEPT !.pc =
                      IF ok \/ Multi THEN "s_rchk" ELSE Propagate("Exception")]
    /\ UNCHANGED <<outcome, opened>>
    /\ Blocking
    /\ TaskFrameT

\* line 376: restart_requested[0] and not self.stop_event.is_set()
\* line 307: restart_requested[0]
RestartWanted == restart_requested /\ ~(Multi /\ stop_event)

\* a mutant of time_sleep: the call may return at once
time_sleep_NoPause(secs) == 0

\* time.sleep(secs): the least time the call takes
time_sleep(secs) == secs

\* time.sleep(secs) takes that, or, the thread being scheduled late, a second
\* more
SleepTimes(secs) == {time_sleep(secs), time_sleep(secs) + 1}

\* lines 376-380 (multi), 307-311 (single): the restart decision
RestartDecision ==
    /\ sess.pc = "s_rchk"
    /\ IF RestartWanted
       THEN \E alive \in {"live", "not_live", "raise"} :
               sess' = [sess EXCEPT
                           !.pc = CASE alive = "live" -> "s_sleep"
                                    [] alive = "not_live" -> "done"
                                    [] OTHER -> Propagate("Exception")]
       ELSE sess' = [sess EXCEPT !.pc = "done"]
    /\ UNCHANGED <<outcome, opened>>
    /\ TaskFrame

\* lines 380, 311: time.sleep(2) returns
RestartPauseEnd ==
    /\ sess.pc = "s_sleep"
    /\ TimePasses(SleepTimes(RestartPause))
    /\ sess' = [sess EXCEPT !.pc = "s_newurl"]
    /\ UNCHANGED <<outcome, opened>>
    /\ TaskFrameT

\* lines 383-391 (multi), 314-328 (single): the new URL and the nested call
RestartSession ==
    /\ sess.pc = "s_newurl"
    /\ \E url \in {"url", "none", "raise"} :
          IF url = "url"
          THEN /\ sess' = [sess EXCEPT !.pc = "s_url", !.depth = @ + 1]
               /\ IF Single THEN NewDetector ELSE UNCHANGED <<detVars, orphans>>
          ELSE /\ sess' = [sess EXCEPT !.pc = "done"]
               /\ UNCHANGED <<detVars, orphans>>
    /\ UNCHANGED <<harness, now, cl_pc, restart_requested, cfg_restart, histVars,
                   stop_event, runVars, outcome, opened>>

\* a mutant of EventSet: setting a set event clears it
EventSet_Toggle(e) == ~e

\* threading.Event.set(): the flag after the call (line 409)
EventSet(e) == TRUE

\* stop_all_recordings line 409: self.stop_event.set()
Terminal == sess.pc \in {"done", "failed", "not_live"}

stop_event_set ==
    /\ Multi
    /\ ~Terminal
    /\ stop_event' = EventSet(stop_event)
    /\ UNCHANGED <<harness, now, detVars, cl_pc, restart_requested, cfg_restart,
                   histVars, runVars, sessVars>>

TaskThread ==
    \/ ManualMode
    \/ GetLiveUrl
    \/ OpenSession
    \/ StartMonitoring
    \/ StartMonitoringEnd
    \/ WhileTest
    \/ CheckAlive
    \/ Fetch
    \/ StopCheck
    \/ AppendChunk
    \/ DurationCheck
    \/ RestartCheck
    \/ HandlerSleep
    \/ Finally
    \/ CloseFile
    \/ StopMonitoring
    \/ StopMonitoringEnd
    \/ PostProcess
    \/ RestartDecision
    \/ RestartPauseEnd
    \/ RestartSession

\* the durations tried: none, and a limit of one second
Durations == {0, 1}

Init ==
    /\ harness \in {"multi", "single"}
    /\ now = 0
    /\ DetectorInit
    /\ cl_pc = "idle"
    /\ restart_requested = FALSE
    /\ cfg_restart \in BOOLEAN
    /\ samples = <<>>
    /\ calls = <<>>
    /\ stop_returned = FALSE
    /\ returned_alive = FALSE
    /\ cb_after_stop = FALSE
    /\ stop_event = FALSE
    /\ ntargets = IF harness = "multi" THEN 2 ELSE 1
    /\ RunIdle
    /\ AutoIdle
    /\ \E d \in Durations : sess = NoSession("manual", d)
    /\ orphans = 0
    /\ outcome = "none"
    /\ opened = <<>>

Next ==
    \/ TaskThread
    \/ MonitorThread
    \/ OrphanExit
    \/ stop_event_set

Spec == Init /\ [][Next]_vars

(***************************************************************************)
(* DetSpec: one detector and a client that calls start_monitoring and      *)
(* stop_monitoring in any order.                                           *)
(***************************************************************************)
\* the client calls start_monitoring(callback)
ClientStart ==
    /\ cl_pc = "idle"
    /\ FreeThreads # {}
    /\ IF AlreadyMonitoring(is_monitoring)
       THEN /\ cl_pc' = "noop"                               \* lines 78-80
            /\ UNCHANGED <<detVars, stop_returned>>
       ELSE /\ start_monitoring_begin("client")
            /\ cl_pc' = "starting"
    /\ UNCHANGED <<harness, now, restart_requested, cfg_restart,
                   samples, calls, returned_alive, cb_after_stop>>
    /\ UNCHANGED <<stop_event, runVars, sessVars>>

\* the initial probe of start_monitoring returns
ClientStartEnd ==
    /\ cl_pc = "starting"
    /\ CanRecord
    /\ \E raw \in RawProbes : start_monitoring_end(raw)
    /\ cl_pc' = "idle"
    /\ UNCHANGED <<harness, now, restart_requested, cfg_restart,
                   calls, stop_returned, returned_alive, cb_after_stop>>
    /\ UNCHANGED <<stop_event, runVars, sessVars>>

\* lines 79-80: the warning is logged and start_monitoring returns
ClientStartNoop ==
    /\ cl_pc = "noop"
    /\ cl_pc' = "idle"
    /\ UNCHANGED <<harness, now, detVars, restart_requested, cfg_restart, histVars>>
    /\ UNCHANGED <<stop_event, runVars, sessVars>>

\* the client calls stop_monitoring()
ClientStop ==
    /\ cl_pc = "idle"
    /\ IF is_monitoring
       THEN /\ stop_monitoring_begin
            /\ cl_pc' = "joining"
            /\ UNCHANGED <<stop_returned, returned_alive>>
       ELSE /\ stop_monitoring_return                        \* lines 105-106
            /\ UNCHANGED <<detVars, cl_pc>>
    /\ UNCHANGED <<harness, now, restart_requested, cfg_restart,
                   samples, calls, cb_after_stop>>
    /\ UNCHANGED <<stop_event, runVars, sessVars>>

\* the join of stop_monitoring ends and stop_monitoring returns
ClientStopEnd ==
    /\ cl_pc = "joining"
    /\ JoinMayReturn
    /\ stop_monitoring_return
    /\ cl_pc' = "idle"
    /\ UNCHANGED <<harness, now, detVars, restart_requested, cfg_restart,
                   samples, calls, cb_after_stop>>
    /\ UNCHANGED <<stop_event, runVars, sessVars>>

DetInit ==
    /\ harness = "detector"
    /\ now = 0
    /\ DetectorInit
    /\ cl_pc = "idle"
    /\ restart_requested = FALSE
    /\ cfg_restart = FALSE
    /\ samples = <<>>
    /\ calls = <<>>
    /\ stop_returned = FALSE
    /\ returned_alive = FALSE
    /\ cb_after_stop = FALSE
    /\ stop_event = FALSE
    /\ ntargets = 1
    /\ RunIdle
    /\ AutoIdle
    /\ SessionIdle

DetNext ==
    \/ ClientStart
    \/ ClientStartNoop
    \/ ClientStartEnd
    \/ ClientStop
    \/ ClientStopEnd
    \/ MonitorThread

DetSpec == DetInit /\ [][DetNext]_vars

(***************************************************************************)
(* RunSpec: MultiStreamRecorder.run in manual mode.  The main thread       *)
(* starts one recording thread per target, waits for them, and shuts down  *)
(* on a KeyboardInterrupt.  A recording session is one step here (Spec has *)
(* its steps); what is kept of it is the file it opens and whether it asks *)
(* for a restart.  The clock ticks on its own; a sleep or a join with a    *)
(* timeout waits for its deadline, and may return later than that.         *)
(***************************************************************************)
\* targets of a run
NumTargets == 2
\* sessions one recording thread may open
RunMaxSessions == 3
\* wall clock values 0..RunMaxTime
RunMaxTime == 4
\* multi_stream_recorder.py:138  time.sleep(1)
StartDelay == 1
\* multi_stream_recorder.py:414  thread.join(timeout=5)
ThreadJoinTimeout == 5

\* user names the targets resolve to
Users == {<<"a">>, <<"a", "_", "1">>}

Targets == 1..ntargets
\* lines 94-103: the progress entry of a target (status, duration, file_size)
\* and its thread, not started; starts counts the threads started for it
RunUnstarted(u) ==
    [pc |-> "unstarted", user |-> u, flag |-> FALSE, wake |-> 0, files |-> <<>>,
     status |-> "Waiting", duration |-> 0, file_size |-> 0, starts |-> 0]
\* a mutant of is_alive: no thread is ever seen alive
is_alive_Never(i) == FALSE

\* thread.is_alive()
is_alive(i) == tasks[i].pc \notin {"unstarted", "ended"}

RunFrame == UNCHANGED <<harness, detVars, cl_pc, restart_requested, cfg_restart,
                        histVars, ntargets, sessVars, auto, lookup>>

\* the clock
RunTick ==
    /\ now < RunMaxTime
    /\ now' = now + 1
    /\ UNCHANGED <<stop_event, run, tasks>>
    /\ RunFrame

\* ---- a recording thread (target i)
\* a mutant of AfterTaskError: a failed task stops the run
AfterTaskError_Stops(e) == TRUE

\* _record_stream lines 173-178: the exception that ended the task is logged;
\* the stop event after that
AfterTaskError(e) == e

\* _record_stream lines 152-178: TikTokRecorder(...) resolves the user and the
\* room, or raises, which _record_stream logs
TaskInit(i) ==
    /\ tasks[i].pc = "init"
    /\ \E ok \in BOOLEAN :
          /\ tasks' = [tasks EXCEPT ![i].pc = IF ok THEN "manual" ELSE "ended"]
          /\ stop_event' = IF ok THEN stop_event ELSE AfterTaskError(stop_event)
    /\ UNCHANGED <<now, run>>
    /\ RunFrame

\* _manual_mode_with_stop_event lines 193-201
TaskManual(i) ==
    /\ tasks[i].pc = "manual"
    /\ IF stop_event
       THEN /\ tasks' = [tasks EXCEPT ![i].pc = "ended"]
            /\ UNCHANGED stop_event
       ELSE \E alive \in BOOLEAN :
               /\ tasks' = [tasks EXCEPT ![i].pc = IF alive THEN "s_url" ELSE "ended"]
               /\ stop_event' = IF alive THEN stop_event ELSE AfterTaskError(stop_event)
    /\ UNCHANGED <<now, run>>
    /\ RunFrame

\* _start_recording_with_stop_event lines 230-232
TaskGetLiveUrl(i) ==
    /\ tasks[i].pc = "s_url"
    /\ \E url \in BOOLEAN :
          /\ tasks' = [tasks EXCEPT ![i].pc = IF url THEN "s_open" ELSE "ended"]
          /\ stop_event' = IF url THEN stop_event ELSE AfterTaskError(stop_event)
    /\ UNCHANGED <<now, run>>
    /\ RunFrame

\* lines 234-278: the output path from the clock, the file opened, the
\* closure's flag cleared
TaskOpen(i) ==
    /\ tasks[i].pc = "s_open"
    /\ Len(tasks[i].files) < RunMaxSessions
    /\ tasks' = [tasks EXCEPT
                    ![i].pc = "recording",
                    ![i].flag = FALSE,
                    ![i].status = "Recording",                      \* lines 257-259
                    ![i].files = Append(@, OutputPath(<<>>, tasks[i].user, StartSecond + now,
                                                      stream_key(i), ntargets))]
    /\ UNCHANGED <<now, stop_event, run>>
    /\ RunFrame

\* lines 280-373: the streaming loop ends, the file is closed, the detector
\* stopped, the status set (lines 359-362), the file converted; the callback
\* may have set the flag
TaskRecord(i) ==
    /\ tasks[i].pc = "recording"
    /\ \E f \in BOOLEAN : tasks' = [tasks EXCEPT ![i].pc = "s_rchk", ![i].flag = f,
                                                 ![i].status = "Completed"]
    /\ UNCHANGED <<now, stop_event, run>>
    /\ RunFrame

\* lines 376-380: the restart decision and the start of the pause
TaskRestartDecision(i) ==
    /\ tasks[i].pc = "s_rchk"
    /\ IF tasks[i].flag /\ ~stop_event
       THEN \E alive \in BOOLEAN :
               IF alive
               THEN tasks' = [tasks EXCEPT ![i].pc = "s_sleep", ![i].flag = FALSE,
                                           ![i].wake = now + time_sleep(RestartPause)]
               ELSE tasks' = [tasks EXCEPT ![i].pc = "ended", ![i].flag = FALSE]
       ELSE tasks' = [tasks EXCEPT ![i].pc = "ended", ![i].flag = FALSE]
    /\ UNCHANGED <<now, stop_event, run>>
    /\ RunFrame

\* lines 380-391: the pause is over, the new URL, the nested call
TaskRestart(i) ==
    /\ tasks[i].pc = "s_sleep"
    /\ now >= tasks[i].wake
    /\ \E url \in BOOLEAN :
          tasks' = [tasks EXCEPT ![i].pc = IF url THEN "s_url" ELSE "ended", ![i].wake = 0]
    /\ UNCHANGED <<now, stop_event, run>>
    /\ RunFrame

RecordingThread(i) ==
    \/ TaskInit(i)
    \/ TaskManual(i)
    \/ TaskGetLiveUrl(i)
    \/ TaskOpen(i)
    \/ TaskRecord(i)
    \/ TaskRestartDecision(i)
    \/ TaskRestart(i)

\* ---- the main thread
\* run lines 109-128: the next thread is created and started
RunStartThread ==
    /\ run.pc = "loop"
    /\ run.i < ntargets
    /\ tasks' = [tasks EXCEPT ![run.i + 1].pc = "init", ![run.i + 1].starts = @ + 1]
    /\ run' = [run EXCEPT !.pc = "status", !.i = @ + 1]
    /\ UNCHANGED <<now, stop_event>>
    /\ RunFrame

\* run lines 130-138: the main thread writes the status of the thread it has
\* started, then time.sleep(1)
RunStatusStarting ==
    /\ run.pc = "status"
    /\ tasks' = [tasks EXCEPT ![run.i].status = "Starting"]
    /\ run' = [run EXCEPT !.pc = "sleep", !.wake = now + time_sleep(StartDelay)]
    /\ UNCHANGED <<now, stop_event>>
    /\ RunFrame

\* line 138 returns; after the last target, _wait_for_completion (line 141)
RunSleepEnd ==
    /\ run.pc = "sleep"
    /\ now >= run.wake
    /\ run' = [run EXCEPT !.pc = IF run.i < ntargets THEN "loop" ELSE "wait", !.wake = 0]
    /\ UNCHANGED <<now, stop_event, tasks>>
    /\ RunFrame

\* _wait_for_completion lines 397-399: no thread is alive any more
RunWaitEnd ==
    /\ run.pc = "wait"
    /\ \A i \in Targets : ~is_alive(i)
    /\ run' = [run EXCEPT !.pc = "returned"]
    /\ UNCHANGED <<now, stop_event, tasks>>
    /\ RunFrame

\* stop_all_recordings lines 408-409, entered from the handler at the given
\* level: 1 is _wait_for_completion's (line 400), 2 is run's (lines 143-148)
stop_all_recordings(level) ==
    /\ stop_event' = EventSet(stop_event)
    /\ run' = [run EXCEPT !.pc = "joining", !.level = level, !.j = 1, !.wake = 0]

\* the main thread is inside stop_all_recordings
InShutdown == {"joining", "sum_duration", "sum_size"}

\* Ctrl-C reaches the main thread: in the try block of run, in
\* _wait_for_completion, or inside a stop_all_recordings already running, whose
\* handler it leaves
KeyboardInterrupt ==
    /\ CASE run.pc \in {"loop", "status", "sleep"} -> stop_all_recordings(2)
         [] run.pc = "wait" -> stop_all_recordings(1)
         [] run.pc \in InShutdown /\ run.level = 1 -> stop_all_recordings(2)
         [] run.pc \in InShutdown /\ run.level = 2 ->
                /\ run' = [run EXCEPT !.pc = "raised"]
                /\ UNCHANGED stop_event
         [] OTHER -> FALSE
    /\ UNCHANGED <<now, tasks>>
    /\ RunFrame

\* stop_all_recordings lines 412-420: the next thread of recording_threads; a
\* live one is joined for at most five seconds; after the last, the summary
\* is called
RunJoinNext ==
    /\ run.pc = "joining"
    /\ run.wake = 0
    /\ run' = IF run.j > run.i THEN [run EXCEPT !.pc = "sum_duration"]
              ELSE IF is_alive(run.j) THEN [run EXCEPT !.wake = now + ThreadJoinTimeout]
              ELSE [run EXCEPT !.j = @ + 1]
    /\ UNCHANGED <<now, stop_event, tasks>>
    /\ RunFrame

\* a mutant of JoinReturns: the join has no timeout
JoinReturns_NoTimeout(alive, t, deadline) == ~alive

\* line 414: thread.join(timeout=5) returns when the thread has ended or the
\* timeout has elapsed
JoinReturns(alive, t, deadline) == ~alive \/ t >= deadline

\* line 414: the join returns
RunJoinEnd ==
    /\ run.pc = "joining"
    /\ run.wake # 0
    /\ JoinReturns(is_alive(run.j), now, run.wake)
    /\ run' = [run EXCEPT !.j = @ + 1, !.wake = 0]
    /\ UNCHANGED <<now, stop_event, tasks>>
    /\ RunFrame

\* _display_final_summary line 473: the durations of the entries are summed
SummaryDuration ==
    /\ run.pc = "sum_duration"
    /\ run' = [run EXCEPT !.pc = "sum_size",
                          !.total_duration = [i \in Targets |-> tasks[i].duration]]
    /\ UNCHANGED <<now, stop_event, tasks>>
    /\ RunFrame

\* _display_final_summary lines 474-510: the file sizes are summed, the
\* completed streams counted, the summary printed; stop_all_recordings and
\* its caller return
SummarySize ==
    /\ run.pc = "sum_size"
    /\ run' = [run EXCEPT !.pc = "returned", !.summaries = @ + 1,
                          !.total_size = [i \in Targets |-> tasks[i].file_size]]
    /\ UNCHANGED <<now, stop_event, tasks>>
    /\ RunFrame

MainThread ==
    \/ RunStartThread
    \/ RunStatusStarting
    \/ RunSleepEnd
    \/ RunWaitEnd
    \/ KeyboardInterrupt
    \/ RunJoinNext
    \/ RunJoinEnd
    \/ SummaryDuration
    \/ SummarySize

RunInit ==
    /\ harness = "run"
    /\ now = 0
    /\ DetectorInit
    /\ cl_pc = "idle"
    /\ restart_requested = FALSE
    /\ cfg_restart = FALSE
    /\ samples = <<>>
    /\ calls = <<>>
    /\ stop_returned = FALSE
    /\ returned_alive = FALSE
    /\ cb_after_stop = FALSE
    /\ SessionIdle
    /\ stop_event = FALSE                                   \* line 54
    /\ ntargets \in 1..NumTargets
    /\ run = MainThreadAt("loop")
    /\ tasks \in [Targets -> {RunUnstarted(u) : u \in Users}]
    /\ AutoIdle

RunNext ==
    \/ RunTick
    \/ MainThread
    \/ \E i \in Targets : RecordingThread(i)

RunSpec == RunInit /\ [][RunNext]_vars

(***************************************************************************)
(* ShutdownSpec: MultiStreamRecorder.run and stop_all_recordings, with the *)
(* recording threads reduced to what the main thread sees of them: alive   *)
(* or not, and their progress entries.  A thread may exit at any moment or *)
(* never (it then never observes the stop event).  Time passes while the   *)
(* main thread is in a blocking call, and a sleep or a join with a timeout *)
(* returns at its deadline at the latest.                                  *)
(***************************************************************************)
\* the last second at which the main thread may still be waiting for the
\* threads to complete without a shutdown having been requested
ShutdownBy == 3
\* progress updates one recording thread makes
MaxUpdates == 2

\* the clock: the main thread is in time.sleep(1) (lines 138, 399) or in
\* thread.join(timeout=5) (line 414)
ShutTick ==
    /\ CASE run.pc = "sleep" -> now < run.wake
         [] run.pc = "joining" /\ run.wake # 0 -> now < run.wake
         [] run.pc = "wait" -> now < ShutdownBy
         [] OTHER -> FALSE
    /\ now' = now + 1
    /\ UNCHANGED <<stop_event, run, tasks>>
    /\ RunFrame

\* _record_stream lines 150-259: the thread of target i has its recorder, the
\* target is live, the session's file is open: status Recording
ThreadOpens(i) ==
    /\ tasks[i].pc = "init"
    /\ tasks' = [tasks EXCEPT ![i].pc = "recording", ![i].status = "Recording"]
    /\ UNCHANGED <<now, stop_event, run>>
    /\ RunFrame

\* lines 300-324: the buffer was written to the file, and the entry is updated
\* in one call of dict.update.  The values written stand for the update they
\* come from: the k-th update writes k to both fields.
ThreadUpdate(i) ==
    /\ tasks[i].pc = "recording"
    /\ tasks[i].duration < MaxUpdates
    /\ tasks' = [tasks EXCEPT ![i].duration = @ + 1, ![i].file_size = @ + 1]
    /\ UNCHANGED <<now, stop_event, run>>
    /\ RunFrame

\* the thread's function returns: _record_stream has logged an exception
\* (lines 173-178), or the session is over (lines 348-391: status Completed)
ThreadExit(i) ==
    /\ tasks[i].pc \in {"init", "recording"}
    /\ tasks' = [tasks EXCEPT ![i].pc = "ended",
                              ![i].status = IF tasks[i].pc = "recording"
                                            THEN "Completed" ELSE @]
    /\ UNCHANGED <<now, stop_event, run>>
    /\ RunFrame

ProgressThread(i) ==
    \/ ThreadOpens(i)
    \/ ThreadUpdate(i)
    \/ ThreadExit(i)

ShutInit ==
    /\ harness = "shutdown"
    /\ now = 0
    /\ DetectorInit
    /\ cl_pc = "idle"
    /\ restart_requested = FALSE
    /\ cfg_restart = FALSE
    /\ samples = <<>>
    /\ calls = <<>>
    /\ stop_returned = FALSE
    /\ returned_alive = FALSE
    /\ cb_after_stop = FALSE
    /\ SessionIdle
    /\ stop_event = FALSE                                   \* line 54
    /\ ntargets \in 1..NumTargets
    /\ run = MainThreadAt("loop")
    /\ tasks = [i \in Targets |-> RunUnstarted(<<"a">>)]
    /\ AutoIdle

ShutNext ==
    \/ ShutTick
    \/ MainThread
    \/ \E i \in Targets : ProgressThread(i)

ShutdownSpec == ShutInit /\ [][ShutNext]_vars

\* The main thread is scheduled, and time passes; nothing is assumed of the
\* recording threads.
FairShutdownSpec ==
    /\ ShutdownSpec
    /\ WF_vars(ShutTick)
    /\ WF_vars(RunJoinNext)
    /\ WF_vars(RunJoinEnd)
    /\ WF_vars(SummaryDuration)
    /\ WF_vars(SummarySize)

(***************************************************************************)
(* AutoSpec: one task in automatic mode,                                   *)
(* MultiStreamRecorder._automatic_mode_with_stop_event (harness            *)
(* "auto_multi") or TikTokRecorder.automatic_mode (harness "auto_single"). *)
(* A session is a few steps here: the URL, the file opened, the streaming  *)
(* loop, the file closed, the post-processing, the restart decision.       *)
(***************************************************************************)
\* liveness checks that may report not live
MaxNotLive == 2
\* sessions the task may open
AutoMaxSessions == 3
\* automatic_interval * 60, the one-second sleeps of a recheck wait
IntervalTicks == 2

AutoMulti == harness = "auto_multi"
AutoSingle == harness = "auto_single"

AutoFrame == UNCHANGED <<harness, now, detVars, cl_pc, restart_requested, cfg_restart,
                         histVars, ntargets, run, tasks, sessVars, lookup>>

\* a mutant of AfterNotLive: the loop checks again at once
AfterNotLive_NoWait(multi) == "a_top"

\* multi_stream_recorder.py lines 212-220, tiktok_recorder.py lines 120-123:
\* the handler of UserLiveException starts the recheck wait
AfterNotLive(multi) == IF multi THEN "w_check" ELSE "i_sleep"

\* The except clauses of the automatic loop, for an exception exc raised by the
\* call src: multi_stream_recorder.py lines 212-224, tiktok_recorder.py lines
\* 120-130.  The result is the task after the clause has been entered.
Handler(a, exc, src) ==
    LET b == [a EXCEPT !.last_exc = exc, !.last_src = src, !.depth = 0, !.flag = FALSE,
                       !.clean = a.clean /\ exc = "UserLiveException"]
    IN  CASE exc = "UserLiveException" -> [b EXCEPT !.pc = AfterNotLive(AutoMulti), !.ticks = 0]
          [] AutoMulti -> [b EXCEPT !.pc = "ended"]                 \* lines 222-224: break
          [] exc = "ConnectionError" -> [b EXCEPT !.pc = "c_sleep"]  \* lines 125-127
          [] OTHER -> [b EXCEPT !.pc = "a_top"]                      \* lines 129-130

\* start_recording returns to the automatic loop (every frame of it returns)
Return(a) == [a EXCEPT !.pc = "a_top", !.depth = 0, !.flag = FALSE]

\* An exception leaves a start_recording frame: that of a restart is inside
\* try/except Exception (lines 383-391, 314-328), which logs it, and the frames
\* return; the outermost one lets it reach the automatic loop.
Raise(a, exc, src) == IF a.depth > 0 THEN Return(a) ELSE Handler(a, exc, src)

\* A call that blocks (a request to TikTok, the streaming, the join of the
\* monitor, ffmpeg) returns within the second of the last file or later.
MayTakeTime(a) == IF a.opened_at = <<>> THEN {a} ELSE {a, [a EXCEPT !.later = TRUE]}

\* time.sleep(n), n >= 1, has returned: the second is a later one
Slept(a) == [a EXCEPT !.later = (a.opened_at # <<>>)]

\* time.strftime("%Y%m%d_%H%M%S") of line 234: the second of the next file
NextSecond(a) ==
    IF a.opened_at = <<>> THEN 0
    ELSE a.opened_at[Len(a.opened_at)] + (IF a.later THEN 1 ELSE 0)

\* line 207: while not self.stop_event.is_set(); line 115: while True
AutoTop ==
    /\ auto.pc = "a_top"
    /\ auto' = [auto EXCEPT !.pc = IF AutoMulti /\ stop_event THEN "ended" ELSE "a_room"]
    /\ UNCHANGED stop_event
    /\ AutoFrame

\* lines 209, 117: recorder.room_id = get_room_id_from_user(user)
AutoRoom ==
    /\ auto.pc = "a_room"
    /\ \/ auto' \in MayTakeTime([auto EXCEPT !.pc = "a_manual"])
       \/ \E exc \in {"ConnectionError", "Exception"} :
             auto' \in MayTakeTime(Handler(auto, exc, "room"))
    /\ UNCHANGED stop_event
    /\ AutoFrame

\* _manual_mode_with_stop_event lines 193-201, manual_mode lines 105-112
AutoManual ==
    /\ auto.pc = "a_manual"
    /\ IF AutoMulti /\ stop_event
       THEN auto' = Return(auto)
       ELSE \/ auto' \in MayTakeTime([auto EXCEPT !.pc = "s_url"])
            \/ /\ auto.notlive < MaxNotLive
               /\ auto' \in MayTakeTime(Handler([auto EXCEPT !.notlive = @ + 1],
                                                "UserLiveException", "alive"))
            \/ \E exc \in {"ConnectionError", "Exception"} :
                  auto' \in MayTakeTime(Handler(auto, exc, "alive"))
    /\ UNCHANGED stop_event
    /\ AutoFrame

\* lines 230-232, 136-138: the playback URL, or none (an Exception, a
\* LiveNotFound), or the call raises
AutoGetLiveUrl ==
    /\ auto.pc = "s_url"
    /\ \/ auto' \in MayTakeTime([auto EXCEPT !.pc = "s_open"])
       \/ \E exc \in {"ConnectionError", "Exception"} :
             auto' \in MayTakeTime(Raise(auto, exc, "url"))
    /\ UNCHANGED stop_event
    /\ AutoFrame

\* config_manager.py lines 12-28: ConfigManager() loads the file
ConfigManager(disk) == disk

\* lines 234-287, 140-194: the output file is opened.  The multi-stream
\* session constructs its ConfigManager (line 262); the single-stream one
\* uses self.config_manager, constructed with the recorder (line 74).
AutoOpen ==
    /\ auto.pc = "s_open"
    /\ auto.nfiles < AutoMaxSessions
    /\ auto' = [auto EXCEPT !.pc = "s_stream", !.flag = FALSE,
                            !.nopen = @ + 1, !.nfiles = @ + 1,
                            !.post_failed = FALSE,
                            !.opened_at = Append(@, NextSecond(auto)), !.later = FALSE,
                            !.config = IF AutoMulti THEN ConfigManager(auto.disk) ELSE @,
                            !.at_open = auto.disk]
    /\ UNCHANGED stop_event
    /\ AutoFrame

\* lines 289-352, 196-284: the streaming loop ends, whatever ended it (an
\* exception raised in it is caught in it); the callback may have set the
\* flag, when the session's configuration enables the restart (lines 281, 189)
AutoStream ==
    /\ auto.pc = "s_stream"
    /\ \E f \in {FALSE, auto.config.restart_on_resolution_change} :
          auto' \in MayTakeTime([auto EXCEPT !.pc = "s_close", !.flag = f])
    /\ UNCHANGED stop_event
    /\ AutoFrame

\* a mutant of WithExit: the file stays open
WithExit_Leak(n) == n

\* the with block is left: the number of open files after it
WithExit(n) == n - 1

\* lines 275-352, 184-284: the with block is left
AutoClose ==
    /\ auto.pc = "s_close"
    /\ auto' = [auto EXCEPT !.pc = "s_post", !.nopen = WithExit(@)]
    /\ UNCHANGED stop_event
    /\ AutoFrame

\* a mutant of PostFailure: the failure leaves the session as an exception
PostFailure_Propagates(a, multi) ==
    Raise([a EXCEPT !.post_failed = multi], "Exception", "post")

\* The conversion or the upload raises.  multi_stream_recorder.py lines
\* 364-373: the try/except Exception around them logs it and the session goes
\* on to its restart decision; tiktok_recorder.py lines 297-304: nothing
\* catches it in start_recording.
PostFailure(a, multi) ==
    IF multi THEN [a EXCEPT !.pc = "s_rchk", !.post_failed = TRUE]
             ELSE Raise(a, "Exception", "post")

\* lines 355-373, 286-304: stop_monitoring, the conversion, the upload
AutoPost ==
    /\ auto.pc = "s_post"
    /\ \/ auto' \in MayTakeTime([auto EXCEPT !.pc = "s_rchk"])
       \/ auto' \in MayTakeTime(PostFailure(auto, AutoMulti))
    /\ UNCHANGED stop_event
    /\ AutoFrame

\* lines 376-380, 307-311: the restart decision
AutoRestartDecision ==
    /\ auto.pc = "s_rchk"
    /\ IF auto.flag /\ ~(AutoMulti /\ stop_event)
       THEN \/ auto' \in MayTakeTime([auto EXCEPT !.pc = "s_sleep"])
            \/ auto' \in MayTakeTime(Return(auto))
            \/ \E exc \in {"ConnectionError", "Exception"} :
                  auto' \in MayTakeTime(Raise(auto, exc, "rchk"))
       ELSE auto' = Return(auto)
    /\ UNCHANGED stop_event
    /\ AutoFrame

\* lines 380-391, 311-328: the pause, the new URL, the nested call
AutoRestart ==
    /\ auto.pc = "s_sleep"
    /\ \/ auto' = Slept([auto EXCEPT !.pc = "s_url", !.depth = @ + 1])
       \/ auto' = Slept(Return(auto))
    /\ UNCHANGED stop_event
    /\ AutoFrame

\* a mutant of WaitSeesStop: the wait does not look at the stop event
WaitSeesStop_Never(e) == FALSE

\* lines 218-219: if self.stop_event.is_set(): return
WaitSeesStop(e) == e

\* lines 217-219: the next round of the recheck wait
AutoWaitCheck ==
    /\ auto.pc = "w_check"
    /\ auto' = [auto EXCEPT !.pc = IF WaitSeesStop(stop_event) THEN "ended" ELSE "w_sleep"]
    /\ UNCHANGED stop_event
    /\ AutoFrame

\* line 220: time.sleep(1) returns; after the last round the wait is over
AutoWaitSleep ==
    /\ auto.pc = "w_sleep"
    /\ auto' = Slept(IF auto.ticks + 1 >= IntervalTicks
                     THEN [auto EXCEPT !.pc = "a_top", !.ticks = 0, !.waits = @ + 1]
                     ELSE [auto EXCEPT !.pc = "w_check", !.ticks = @ + 1])
    /\ UNCHANGED stop_event
    /\ AutoFrame

\* tiktok_recorder.py line 123: the recheck wait, one sleep, is over
AutoIntervalSleep ==
    /\ auto.pc = "i_sleep"
    /\ auto' = Slept([auto EXCEPT !.pc = "a_top", !.waits = @ + 1])
    /\ UNCHANGED stop_event
    /\ AutoFrame

\* tiktok_recorder.py line 127: the cooldown after a ConnectionError is over
AutoCooldown ==
    /\ auto.pc = "c_sleep"
    /\ auto' = Slept([auto EXCEPT !.pc = "a_top"])
    /\ UNCHANGED stop_event
    /\ AutoFrame

\* configuration changes persisted during the life of the task
MaxConfigChanges == 2

\* config_manager.py lines 53-60: another process (configure_resolution.py)
\* persists changed settings
ConfigChange ==
    /\ auto.pc # "ended"
    /\ auto.nchanges < MaxConfigChanges
    /\ \E c \in Configs \ {auto.disk} :
          auto' = [auto EXCEPT !.disk = c, !.nchanges = @ + 1]
    /\ UNCHANGED stop_event
    /\ AutoFrame

\* stop_all_recordings line 409, while the task runs
AutoStop ==
    /\ AutoMulti
    /\ auto.pc # "ended"
    /\ stop_event' = EventSet(stop_event)
    /\ UNCHANGED auto
    /\ AutoFrame

AutoTask ==
    \/ AutoTop
    \/ AutoRoom
    \/ AutoManual
    \/ AutoGetLiveUrl
    \/ AutoOpen
    \/ AutoStream
    \/ AutoClose
    \/ AutoPost
    \/ AutoRestartDecision
    \/ AutoRestart
    \/ AutoWaitCheck
    \/ AutoWaitSleep
    \/ AutoIntervalSleep
    \/ AutoCooldown

AutoInit ==
    /\ harness \in {"auto_multi", "auto_single"}
    /\ now = 0
    /\ DetectorInit
    /\ cl_pc = "idle"
    /\ restart_requested = FALSE
    /\ cfg_restart = FALSE
    /\ samples = <<>>
    /\ calls = <<>>
    /\ stop_returned = FALSE
    /\ returned_alive = FALSE
    /\ cb_after_stop = FALSE
    /\ SessionIdle
    /\ stop_event = FALSE
    /\ ntargets = 1
    /\ RunIdle
    /\ lookup = [pc |-> "none"]
    /\ \E c \in Configs :
          auto = [NoAuto("a_top") EXCEPT !.disk = c, !.config = ConfigManager(c),
                                         !.at_open = c]

AutoNext ==
    \/ AutoTask
    \/ AutoStop
    \/ ConfigChange

AutoSpec == AutoInit /\ [][AutoNext]_vars

(***************************************************************************)
(* ConfigSpec: the lookups of ConfigManager, applied to the configurations *)
(* a file can hold for one user "u" and one room "r".                      *)
(***************************************************************************)
Settings == {"restart_on_resolution_change", "resolution_check_interval"}
\* values a setting can have in the file, as the JSON text has them
SettingValues(setting) ==
    IF setting = "restart_on_resolution_change" THEN {"false", "true"} ELSE {"5", "10"}
\* a dict with some of the settings
PartialSettings ==
    UNION {[keys -> {"false", "true", "5", "10"}] : keys \in SUBSET Settings}
SettingsDicts ==
    {d \in PartialSettings : \A k \in DOMAIN d : d[k] \in SettingValues(k)}
\* the file: the defaults (both present, as _load_config writes them), the
\* overrides of the user, the overrides of the room
ConfigFiles ==
    [default : {d \in SettingsDicts : DOMAIN d = Settings},
     users : SettingsDicts,
     rooms : SettingsDicts]

\* dict.get(key, default_value)
DictGet(d, key, default_value) == IF key \in DOMAIN d THEN d[key] ELSE default_value

\* config_manager.py lines 62-69; user_config is the dict of the one user
get_user_setting(config, user, setting, default_value) ==
    LET user_config == IF user = "u" THEN config.users ELSE <<>>
    IN  IF setting \in DOMAIN user_config
        THEN user_config[setting]
        ELSE DictGet(config.default, setting, default_value)

\* config_manager.py lines 71-78
get_room_setting(config, room_id, setting, default_value) ==
    LET room_config == IF room_id = "r" THEN config.rooms ELSE <<>>
    IN  IF setting \in DOMAIN room_config
        THEN room_config[setting]
        ELSE DictGet(config.default, setting, default_value)

\* the fallback value in the code of each setting (lines 105, 114)
CodeDefault(setting) == IF setting = "restart_on_resolution_change" THEN "false" ELSE "5"

\* config_manager.py lines 102-118: should_restart_on_resolution_change and
\* get_resolution_check_interval, which differ in the setting's name and in
\* the fallback value; "" stands for None
SettingFor(config, user, room_id, setting) ==
    IF user # "" THEN get_user_setting(config, user, setting, CodeDefault(setting))
    ELSE IF room_id # "" THEN get_room_setting(config, room_id, setting, CodeDefault(setting))
    ELSE DictGet(config.default, setting, CodeDefault(setting))

ConfigFrame == UNCHANGED <<harness, now, detVars, cl_pc, restart_requested, cfg_restart,
                           histVars, stop_event, ntargets, run, tasks, auto, sessVars>>

\* config_manager.py lines 102-109
CallShouldRestart ==
    /\ lookup.pc = "ready"
    /\ lookup' = [lookup EXCEPT !.pc = "done", !.setting = "restart_on_resolution_change",
                      !.result = SettingFor(lookup.config, lookup.user, lookup.room_id,
                                            "restart_on_resolution_change")]
    /\ ConfigFrame

\* config_manager.py lines 111-118
CallGetCheckInterval ==
    /\ lookup.pc = "ready"
    /\ lookup' = [lookup EXCEPT !.pc = "done", !.setting = "resolution_check_interval",
                      !.result = SettingFor(lookup.config, lookup.user, lookup.room_id,
                                            "resolution_check_interval")]
    /\ ConfigFrame

ConfigInit ==
    /\ harness = "config"
    /\ now = 0
    /\ DetectorInit
    /\ cl_pc = "idle"
    /\ restart_requested = FALSE
    /\ cfg_restart = FALSE
    /\ samples = <<>>
    /\ calls = <<>>
    /\ stop_returned = FALSE
    /\ returned_alive = FALSE
    /\ cb_after_stop = FALSE
    /\ SessionIdle
    /\ stop_event = FALSE
    /\ ntargets = 1
    /\ RunIdle
    /\ auto = NoAuto("none")
    /\ \E c \in ConfigFiles, u \in {"", "u"}, r \in {"", "r"} :
          lookup = [pc |-> "ready", config |-> c, user |-> u, room_id |-> r,
                    setting |-> "none", result |-> "none"]

ConfigNext ==
    \/ CallShouldRestart
    \/ CallGetCheckInterval

ConfigSpec == ConfigInit /\ [][ConfigNext]_vars

(***************************************************************************)
(* Claims about the configuration lookups (ConfigSpec)                     *)
(***************************************************************************)

\* C31: a lookup made with the user and the room both known returns the
\* global default only when the file has an override neither for the user nor
\* for the room; when there is an override, the value of one is returned.
\* The code looks at the room's overrides only when no user is given (lines
\* 104-107, 113-116): with a user, a room override is never applied.
C31_OverrideOfEitherKindApplied ==
    (lookup.pc = "done" /\ lookup.user # "" /\ lookup.room_id # "") =>
        LET k == lookup.setting
            c == lookup.config
            overrides == {d[k] : d \in {e \in {c.users, c.rooms} : k \in DOMAIN e}}
        IN  IF overrides = {} THEN lookup.result = c.default[k]
                              ELSE lookup.result \in overrides

(***************************************************************************)
(* Claims about a recording session (Spec)                                 *)
(***************************************************************************)

\* C1: in a multi-stream session, when the output file has been closed the
\* bytes written to it are the bytes of all the chunks download_live_stream
\* yielded.  The code drops the chunk in hand when it sees the stop event
\* (lines 296-298).
C1_NoChunkDropped ==
    (Multi /\ sess.pc = "s_stop") => sess.written = sess.received

\* C2: whenever the output file is closed the buffer is empty, and every byte
\* appended to the buffer has been written to the file (multi-stream and
\* single-stream sessions, every exit path of the with block).
C2_FlushedBeforeClose ==
    (opened # <<>> /\ ~sess.file_open) =>
        /\ sess.buffer = 0
        /\ sess.written = sess.appended

\* C2 witness: the file was closed after the chunk source raised, and the one
\* byte the buffer held then (less than buffer_size) is in the file.
C2_Witness ==
    /\ ~sess.file_open
    /\ sess.pc = "s_stop"
    /\ outcome = "error"
    /\ sess.appended = 1
    /\ sess.written = 1

\* C3: once the session's output file has been closed, stop_monitoring has been
\* called on the session's detector and has returned.  The code closes the file
\* first (the with block ends before line 355 / 286), and does not stop the
\* detector at all when an exception leaves the with block.
C3_StoppedBeforeClose ==
    (opened # <<>> /\ ~sess.file_open) => stop_returned

\* C6: a session is started by the restart logic only after a session whose
\* streaming loop ended with the outcome resolution-restart.  The code tests
\* the restart flag, not the outcome (lines 376, 307).
C6_RestartOnlyAfterRestartOutcome ==
    \A i \in 1..Len(opened) : opened[i].restart => opened[i].prev = "restart"

\* C7: the exit conditions are tested in the order cancellation, duration,
\* restart flag, and a session that ended as cancelled or as duration-reached
\* is not followed by the restart pause: the restart flag, the lower-priority
\* condition, has no effect after it.  The code restarts on the flag alone.
C7_PriorityDecidesWhatFollows ==
    sess.pc \in {"s_sleep", "s_newurl"} => outcome \notin {"cancelled", "duration"}

\* C21: with a duration limit D, a chunk processed when D seconds or more have
\* passed since the session started ends the session as duration-reached: the
\* loop does not go on to the restart test and the next chunk.  In the
\* single-stream recorder the elapsed time is taken from start_time, which is
\* set anew after every liveness check of the loop (line 203), so after a
\* reconnect it no longer counts from the start of the session.
C21_DurationFromSessionStart ==
    (sess.pc = "s_rstchk" /\ sess.duration # 0) =>
        now - sess.recording_start_time < sess.duration

\* C12: a task has at most one live ResolutionDetector polling thread at any
\* time: the thread of an earlier session's detector has exited when the next
\* session starts its monitor.  The join of stop_monitoring may time out (see
\* C4), and the next session then starts a thread beside the old one.
C12_OnePollingThread ==
    orphans + Cardinality({t \in Threads : Alive(t)}) <= 1

\* C14: a multi-stream session's streaming loop is never ended by a transport
\* error of download_live_stream (RequestException, HTTPException,
\* ConnectionError): the loop is entered again on the same file.  The code
\* has one except clause, which ends the session (lines 344-346).
C14_TransportErrorRetried ==
    ~(Multi /\ outcome = "transport" /\ sess.pc = "s_close")

\* C20: in manual mode, a task whose target is not live at the initial check
\* has opened no file, and is over: the task thread has no further step (no
\* liveness check, no session, no retry).
C20_NotLiveEndsTask ==
    outcome = "not_live" =>
        /\ sess.pc = "not_live"
        /\ opened = <<>>
        /\ ~ENABLED TaskThread

\* C20 witness: a multi-stream task and its target found not live.
C20_Witness ==
    /\ Multi
    /\ outcome = "not_live"
    /\ sess.pc = "not_live"

\* the task is in the chunk loop of a session
Streaming == sess.pc \in {"s_fetch", "s_stopchk", "s_append", "s_durchk", "s_rstchk"}

\* C33: while a session streams, the liveness of the target is verified again
\* between the chunks of one connection: after a chunk has been handled the
\* loop does not fetch the next chunk of the connection without a liveness
\* check, so that a target that stopped being live ends the session although
\* the chunk source keeps delivering.
C33_LivenessCheckedBetweenChunks ==
    [][(harness \in {"multi", "single"} /\ sess.pc = "s_rstchk" /\ sess'.pc # sess.pc)
          => sess'.pc # "s_fetch"]_vars

\* C36: when the monitor stops itself after its probe failures the session is
\* neither ended nor failed by it: the step in which the thread leaves its loop
\* after a probe (the detector object not replaced) leaves the restart flag,
\* the position of the task and the outcome of the session as they are.
C36_MonitorGivingUpLeavesSession ==
    [][(harness \in {"multi", "single"}) =>
          \A t \in Threads :
              (mon[t].pc = "probing" /\ mon'[t].pc = "none" /\ orphans' = orphans) =>
              (/\ restart_requested' = restart_requested
               /\ sess' = sess
               /\ outcome' = outcome
               /\ opened' = opened)]_vars

\* C36 witness: the monitor of the session has stopped by itself (the stop
\* event unset) and the session, its flag unset, is streaming with chunks in.
C36_Witness ==
    /\ harness \in {"multi", "single"}
    /\ resolution_change_callback = "on_resolution_change"
    /\ ~is_monitoring /\ ~det_stop_event
    /\ \A t \in Threads : ~Alive(t)
    /\ sess.pc = "s_fetch" /\ sess.file_open /\ sess.received > 0
    /\ ~restart_requested
    /\ outcome = "none"

\* C37: no session of MultiStreamRecorder opens an output file once the
\* cancellation signal is set, the task in its pause before a restart and the
\* task between its liveness check and the start of the recording included.
C37_NoFileOpenedAfterStop ==
    [][(Multi /\ stop_event) => opened' = opened]_vars

\* C39: with the restart disabled a detected resolution change never raises
\* the restart flag: the session is not ended by it, no restart session follows
\* it, and the monitor has made the new resolution its baseline.
C39_DisabledRestartIgnoresChange ==
    /\ []((harness \in {"multi", "single"} /\ ~cfg_restart) =>
              (~restart_requested /\ outcome # "restart"))
    /\ [][(harness \in {"multi", "single"} /\ ~cfg_restart) =>
              (/\ (Len(opened') > Len(opened) => ~opened'[Len(opened')].restart)
               /\ (calls = <<>> /\ calls' # <<>>) =>
                     (/\ current_resolution' = calls'[1][2]
                      /\ current_resolution = calls'[1][1]
                      /\ sess' = sess))]_vars

\* C39 witness: a change was detected in a session with the restart disabled,
\* and the session streams on with its flag unset and the new baseline.
C39_Witness ==
    /\ harness \in {"multi", "single"}
    /\ ~cfg_restart
    /\ calls = << <<R720, R1080>> >>
    /\ current_resolution = R1080
    /\ Streaming /\ sess.received > 0
    /\ ~restart_requested
    /\ outcome = "none"

(***************************************************************************)
(* Claims about a task in automatic mode (AutoSpec)                        *)
(***************************************************************************)

\* C11: within one task at most one session has its output file open at any
\* time: a restart session, or the next attempt of automatic mode, opens its
\* file after the session before it has closed its own.
C11_SessionsSequential == auto.nopen <= 1

\* C11 witness: the task has its third file open; the session before was a
\* restart session, and this one is the next attempt of the automatic loop.
C11_Witness ==
    /\ auto.nfiles = 3
    /\ auto.nopen = 1
    /\ auto.depth = 0
    /\ auto.pc = "s_stream"

\* C15: in automatic mode of MultiStreamRecorder a ConnectionError that ends
\* an attempt does not end the task (it waits the cooldown and loops).  The
\* code leaves the loop on every exception but UserLiveException (lines 222-224).
C15_ConnectionErrorKeepsTask ==
    ~(AutoMulti /\ auto.last_exc = "ConnectionError" /\ auto.pc = "ended")

\* C16: in automatic mode, an exception that is neither the not-live outcome
\* nor a ConnectionError ends the task.  TikTokRecorder.automatic_mode logs it
\* and goes round the loop again (lines 129-130).
C16_OtherErrorEndsTask ==
    auto.last_exc = "Exception" => auto.pc = "ended"

\* C17: in automatic mode of MultiStreamRecorder an error while resolving the
\* playback URL (or while streaming) ends the session only, not the task.  The
\* exception raised for a missing URL leaves the automatic loop (lines 232,
\* 222-224).
C17_UrlErrorKeepsTask ==
    ~(AutoMulti /\ auto.last_src = "url" /\ auto.pc = "ended")

\* C18: in automatic mode, when the liveness check has reported not live k
\* times and then live, and nothing else has failed, the task has completed
\* exactly k recheck waits when its first session starts; k = 2 gives two.
C18_OneWaitPerNotLive ==
    (auto.clean /\ auto.nfiles = 0 /\ auto.pc \in {"s_url", "s_open"}) =>
        /\ auto.waits = auto.notlive
        /\ auto.ticks = 0
        /\ auto.notlive = 2 => auto.waits = 2

\* C18 witness: not live twice, then live, and the first session is about to
\* open its file.
C18_Witness ==
    /\ auto.clean
    /\ auto.notlive = 2
    /\ auto.waits = 2
    /\ auto.nfiles = 0
    /\ auto.pc = "s_open"

\* C19: once the stop event is set during a recheck wait of
\* MultiStreamRecorder, the task lets the sleep it is in finish (one tick, not
\* the rest of the interval) and exits at the next test of the event; it makes
\* no liveness check and starts no session.
C19_WaitObservesStop ==
    [][(AutoMulti /\ stop_event /\ auto'.pc # auto.pc) =>
          /\ auto.pc = "w_check" => auto'.pc = "ended"
          /\ auto.pc = "w_sleep" => auto'.pc \in {"w_check", "a_top"}
          /\ auto.pc = "a_top" => auto'.pc = "ended"]_vars

\* C19 witness: the task has ended in the middle of a recheck wait, one sleep
\* of the interval done, under the set stop event.
C19_Witness ==
    /\ AutoMulti
    /\ stop_event
    /\ auto.pc = "ended"
    /\ auto.last_exc = "UserLiveException"
    /\ auto.ticks = 1

\* C30: the settings a session works with (whether a resolution change
\* restarts it, the check interval) are those that were persisted when the
\* session started: a later change does not reach the running session, and a
\* change persisted before the session started does.  TikTokRecorder loads
\* the file once, in its constructor (line 74), and every later session of the
\* task, restart or next automatic attempt, works with those settings.
C30_ConfigReadAtSessionStart ==
    auto.pc \in {"s_stream", "s_close"} => auto.config = auto.at_open

\* C32: in multi-stream mode a failure of the post-processing of a session
\* (the conversion, the upload) is logged and has no other effect: the step
\* goes on to the restart decision with no exception handed to the task, no
\* file opened or reopened, and the session is run again only when its restart
\* flag asks for it.
C32_PostFailureIsLoggedOnly ==
    /\ []((AutoMulti /\ auto.post_failed) =>
              /\ auto.nopen = 0
              /\ auto.last_src # "post"
              /\ (auto.pc = "s_sleep" => auto.flag))
    /\ [][(AutoMulti /\ auto.pc = "s_post" /\ auto'.pc # auto.pc) =>
              (/\ auto'.pc = "s_rchk"
               /\ auto'.nfiles = auto.nfiles
               /\ auto'.nopen = auto.nopen
               /\ auto'.flag = auto.flag
               /\ auto'.depth = auto.depth
               /\ auto'.last_exc = auto.last_exc)]_vars

\* C32 witness: the post-processing of the only session failed, and the
\* session has returned to the automatic loop with no exception seen there.
C32_Witness ==
    /\ AutoMulti
    /\ auto.post_failed
    /\ auto.pc = "a_top"
    /\ auto.nfiles = 1 /\ auto.nopen = 0
    /\ auto.last_exc = "none"

\* the output path of the n-th session of the task
AutoPath(n) ==
    OutputPath(<<>>, TheUser, StartSecond + auto.opened_at[n], stream_key(1), ntargets)

\* C38: in automatic mode no session opens a path that an earlier session of
\* the same task opened: two sessions of the task, one following the other at
\* once included, never get the same timestamp-derived name.
C38_AutomaticSessionsNeverSharePath ==
    AutoMulti =>
        \A i, j \in 1..Len(auto.opened_at) : i < j => AutoPath(i) # AutoPath(j)

(***************************************************************************)
(* Claims about a run of MultiStreamRecorder (RunSpec)                     *)
(***************************************************************************)

\* C5: the stop event of a run is monotonic: once set it is never cleared, by
\* no step of the main thread or of a recording thread.
C5_StopEventNeverCleared == [][stop_event => stop_event']_vars

\* C5 witness: stop_all_recordings has run from the handler of run, it has
\* returned, and a recording thread that had opened a file has ended under the
\* set event.
C5_Witness ==
    /\ stop_event
    /\ run.pc = "returned"
    /\ run.level = 2
    /\ \E i \in DOMAIN tasks : tasks[i].pc = "ended" /\ tasks[i].files # <<>>

\* C9: the files a target opens in a chain of restarts have pairwise distinct
\* paths: after N consecutive restarts, N + 1 paths, each opened once.
C9_RestartPathsDistinct ==
    \A i \in DOMAIN tasks :
        \A a, b \in 1..Len(tasks[i].files) :
            a < b => tasks[i].files[a] # tasks[i].files[b]

\* C9 witness: the only target of a run (its paths carry no stream suffix) has
\* restarted twice and opened its third file.
C9_Witness ==
    /\ harness = "run"
    /\ ntargets = 1
    /\ Len(tasks[1].files) = 3

\* C10: two sessions of different targets of one run never have the same
\* output path, whatever the user names and the seconds they start in.
C10_TargetsNeverSharePath ==
    \A i, j \in DOMAIN tasks :
        i # j => \A a \in 1..Len(tasks[i].files), b \in 1..Len(tasks[j].files) :
                    tasks[i].files[a] # tasks[j].files[b]

\* C10 witness: two targets that resolve to the same user have opened their
\* files within the same second.
C10_Witness ==
    /\ harness = "run"
    /\ ntargets = 2
    /\ tasks[1].user = tasks[2].user
    /\ tasks[1].files # <<>>
    /\ tasks[2].files # <<>>
    /\ \E t \in 0..RunMaxTime :
          /\ tasks[1].files[1] =
                OutputPath(<<>>, tasks[1].user, StartSecond + t, stream_key(1), 2)
          /\ tasks[2].files[1] =
                OutputPath(<<>>, tasks[2].user, StartSecond + t, stream_key(2), 2)

\* C24: a task that has ended has left its outcome in the status of its
\* progress entry: the status of an ended task is not Waiting, Starting or
\* Recording.  The status is written at two places only, Recording and
\* Completed (lines 258, 361); a task that ends in the constructor, because
\* its target is not live, or without a playback URL, writes none.
C24_TerminalStatusRecorded ==
    \A i \in DOMAIN tasks :
        tasks[i].pc = "ended" => tasks[i].status \notin {"Waiting", "Starting", "Recording"}

\* C25: a status written by the recording thread of a target is not
\* overwritten by the main thread.  The main thread writes Starting after
\* thread.start() (line 132), when the thread may already have written
\* Recording or Completed.
C25_OnlyOwnerWritesEntry ==
    [][\A i \in DOMAIN tasks :
          (run' # run /\ tasks[i].status \in {"Recording", "Completed"})
              => tasks'[i].status = tasks[i].status]_vars

\* C27: a step in which a task ends without a session (the constructor
\* failed, the target is not live, there is no playback URL) leaves the stop
\* event and every other task as they are.
C27_FailureIsLocal ==
    [][\A i \in DOMAIN tasks :
          (tasks[i].pc \in {"init", "manual", "s_url"} /\ tasks'[i].pc = "ended") =>
              /\ stop_event' = stop_event
              /\ \A j \in DOMAIN tasks \ {i} : tasks'[j] = tasks[j]]_vars

\* C27 witness: the first target's task has ended without a session, no
\* shutdown was requested, and the second target has recorded a session to
\* its end.
C27_Witness ==
    /\ harness = "run"
    /\ ntargets = 2
    /\ ~stop_event
    /\ tasks[1].pc = "ended"
    /\ tasks[1].files = <<>>
    /\ tasks[2].files # <<>>
    /\ tasks[2].status = "Completed"

\* C28: the targets' keys Stream-1 .. Stream-N are N different keys, and for
\* each target one thread at most has been started: exactly one for each target
\* the start loop has passed, whether that thread has failed or finished, and
\* for all of them when the loop is over.
C28_OneEntryOneThread ==
    harness = "run" =>
        /\ Cardinality({stream_key(i) : i \in Targets}) = ntargets
        /\ \A i \in Targets : tasks[i].starts = IF i <= run.i THEN 1 ELSE 0
        /\ run.pc \in {"wait", "returned"} /\ run.level = 0 => run.i = ntargets

\* C28 witness: two targets, the first thread has failed at once, the second
\* has finished a session, and the main thread still waits or has returned:
\* each was started once.
C28_Witness ==
    /\ harness = "run"
    /\ ntargets = 2
    /\ run.i = 2
    /\ tasks[1].pc = "ended"
    /\ tasks[1].files = <<>>
    /\ tasks[1].starts = 1
    /\ tasks[2].pc = "ended"
    /\ tasks[2].status = "Completed"
    /\ tasks[2].starts = 1

\* C13: after a task has reached its terminal state (its thread has exited)
\* its progress entry is not modified again.  (The other half of the claim,
\* that every task exits once the stop event is set, is not what fails.)  The
\* main thread writes the status "Starting" after thread.start() (lines
\* 127-132), which can come after the thread has already ended.
C13_EntryFrozenAfterExit ==
    [][\A i \in DOMAIN tasks :
          tasks[i].pc = "ended" => tasks'[i].status = tasks[i].status]_vars

(***************************************************************************)
(* Claims about the shutdown of a run (ShutdownSpec, FairShutdownSpec)     *)
(***************************************************************************)

\* C22: stop_all_recordings has set the stop event before it joins a thread;
\* each join is bounded, so that stop_all_recordings always comes to its end
\* (it returns, or a further Ctrl-C leaves it) even when a thread never exits;
\* and no step of it touches a recording thread: a thread that has not exited
\* is left running.
C22_ShutdownTerminates ==
    /\ [](run.pc \in InShutdown => stop_event)
    /\ [](run.pc = "joining" /\ run.wake # 0 => run.wake <= now + ThreadJoinTimeout)
    /\ (run.pc \in InShutdown) ~> (run.pc \in {"returned", "raised"})
    /\ [][(run.pc \in InShutdown /\ run' # run) => tasks' = tasks]_vars

\* C22 witness: stop_all_recordings has returned while a thread it joined is
\* still recording.
C22_Witness ==
    /\ harness = "shutdown"
    /\ run.pc = "returned"
    /\ stop_event
    /\ \E i \in DOMAIN tasks : tasks[i].pc = "recording"

\* C23: when run has returned, exactly one final summary has been emitted.
\* The summary is emitted by stop_all_recordings only (line 420): a run whose
\* threads all finish on their own returns from _wait_for_completion without
\* one.
C23_OneSummaryPerRun ==
    run.pc = "returned" => run.summaries = 1

\* C26: the final summary never shows, for an entry, a duration that comes
\* from one update and a file size that comes from another.  The summary reads
\* the durations of all entries and then, in a second pass, their file sizes
\* (lines 473-474), with no lock; a thread abandoned by the bounded join may
\* update its entry in between.
C26_SummaryReadsOneUpdate ==
    run.total_size # <<>> =>
        \A i \in DOMAIN run.total_size : run.total_duration[i] = run.total_size[i]

\* C29: when run has returned, either every target's thread has been started
\* and has exited, or stop_all_recordings has run to its end (the stop event
\* set, every started thread joined, the summary emitted).
C29_ReturnsAfterTasksOrShutdown ==
    run.pc = "returned" =>
        \/ /\ run.i = ntargets
           /\ \A i \in DOMAIN tasks : tasks[i].pc = "ended"
        \/ /\ stop_event
           /\ run.level > 0
           /\ run.j > run.i
           /\ run.summaries = 1

\* C29 witness: two targets, no shutdown; both threads have exited, one after
\* a completed session, and run has returned from _wait_for_completion.
C29_Witness ==
    /\ harness = "shutdown"
    /\ ntargets = 2
    /\ run.pc = "returned"
    /\ run.level = 0
    /\ ~stop_event
    /\ tasks[1].status = "Completed"
    /\ tasks[2].pc = "ended"

(***************************************************************************)
(* Claims about the ResolutionDetector (DetSpec)                           *)
(***************************************************************************)

\* C4: stop_monitoring never returns while the _monitor_loop thread it stops is
\* still running, and the callback is never invoked after stop_monitoring has
\* returned.  The code does not give this: join(timeout=5) gives up on a probe
\* that takes up to 10 s, and the loop does not test the stop event between the
\* probe and the callback.
C4_StopIsRaceFree == ~returned_alive /\ ~cb_after_stop

\* What the claim C8 says the callback log and the baseline are after the
\* probes s, starting from baseline base and log out.
RECURSIVE Replay(_, _, _)
Replay(s, base, out) ==
    IF s = <<>> THEN [base |-> base, calls |-> out]
    ELSE LET kind == Head(s)[1]
             r == Head(s)[2]
         IN  IF r = None THEN Replay(Tail(s), base, out)
             ELSE IF kind = "init" \/ base = None THEN Replay(Tail(s), r, out)
             ELSE IF r # base THEN Replay(Tail(s), r, Append(out, <<base, r>>))
             ELSE Replay(Tail(s), base, out)

Successes(s) == SelectSeq(s, LAMBDA x : x[2] # None)
Results(s) == [i \in 1..Len(s) |-> s[i][2]]
OneRun(s) == \A i \in 2..Len(s) : s[i][1] = "loop"

\* C8: the callback is invoked exactly once for each successful probe of the
\* polling loop that differs from the baseline, with (baseline, sample), and the
\* baseline becomes the sample; an equal probe, a failed probe and the first
\* successful probe invoke nothing.  For the samples 720p, 720p, 1080p, 1080p
\* of one monitoring run the log is exactly <<(720p, 1080p)>>.
C8_CallbackOncePerChange ==
    harness = "detector" =>
        /\ calls = Replay(samples, None, <<>>).calls
        /\ current_resolution = Replay(samples, None, <<>>).base
        /\ (OneRun(samples) /\ Results(Successes(samples)) = <<R720, R720, R1080, R1080>>)
              => calls = << <<R720, R1080>> >>

\* C8 witness: the four samples have been probed and the one callback made.
C8_Witness ==
    /\ harness = "detector"
    /\ OneRun(samples)
    /\ Results(samples) = <<R720, R720, R1080, R1080>>
    /\ calls = << <<R720, R1080>> >>

\* C34: start_monitoring is idempotent while is_monitoring is true: the call
\* takes the early return of lines 78-80, it changes no field of the detector
\* (callback, baseline, stop event, flag) and starts no second thread.
C34_StartWhileMonitoringIsNoop ==
    [][(harness = "detector" /\ cl_pc = "idle" /\ is_monitoring
            /\ cl_pc' \in {"noop", "starting"})
         => (cl_pc' = "noop" /\ UNCHANGED detVars)]_vars

\* C34 witness: start_monitoring was called while the detector was monitoring
\* with a live thread, and is at its early return.
C34_Witness ==
    /\ harness = "detector"
    /\ cl_pc = "noop"
    /\ is_monitoring
    /\ resolution_change_callback = "client"
    /\ Cardinality({t \in Threads : Alive(t)}) = 1

\* the number of failed probes of the polling loop at the end of the samples
RECURSIVE TrailingFailures(_)
TrailingFailures(s) ==
    IF s = <<>> \/ s[Len(s)] # <<"loop", None>> THEN 0
    ELSE 1 + TrailingFailures(SubSeq(s, 1, Len(s) - 1))

\* C35: the polling loop stops on its own exactly when three probes in a row
\* have failed: a successful probe resets the count, a live thread has fewer
\* than three failures behind it, the thread that leaves the loop after a probe
\* has three failed probes in a row behind it, and is_monitoring is false after.
C35_StopsAfterThreeFailuresInARow ==
    /\ [](harness = "detector" =>
            \A t \in Threads : Alive(t) =>
                /\ mon[t].fails < max_consecutive_failures
                /\ (OneRun(samples) => TrailingFailures(samples) = mon[t].fails))
    /\ [][harness = "detector" =>
            \A t \in Threads : mon[t].pc = "probing" =>
                /\ (mon'[t].pc = "none" =>
                        /\ ~is_monitoring'
                        /\ mon[t].fails + 1 = max_consecutive_failures
                        /\ (OneRun(samples') =>
                              TrailingFailures(samples') = max_consecutive_failures))
                /\ (mon'[t].pc = "wait" /\ samples'[Len(samples')][2] # None)
                        => mon'[t].fails = 0]_vars

\* C35 witness: one monitoring run whose loop probed three failures after the
\* initial probe has stopped by itself, the stop event unset.
C35_Witness ==
    /\ harness = "detector"
    /\ Results(samples) = <<R720, None, None, None>>
    /\ OneRun(samples)
    /\ \A t \in Threads : ~Alive(t)
    /\ ~is_monitoring
    /\ ~det_stop_event

\* C40: an exception raised by the resolution-change callback does not stop the
\* monitor: the baseline is the new sample already, the thread goes on to its
\* wait with is_monitoring as it was, and the later changes still invoke the
\* callback (the log of invocations stays the replay of the samples).
C40_CallbackExceptionIsContained ==
    /\ []((harness = "detector" /\ \E t \in Threads : mon[t].raised > 0) =>
                calls = Replay(samples, None, <<>>).calls)
    /\ [][harness = "detector" =>
            \A t \in Threads : (mon[t].raised = 0 /\ mon'[t].raised > 0) =>
                /\ mon'[t].pc = "wait"
                /\ is_monitoring' = is_monitoring
                /\ current_resolution' = samples'[Len(samples')][2]
                /\ calls'[mon'[t].raised] = <<current_resolution, current_resolution'>>]_vars

\* C40 witness: the first invocation of the callback raised, and the same
\* thread has invoked the callback again for a later change.
C40_Witness ==
    /\ harness = "detector"
    /\ \E t \in Threads : Alive(t) /\ mon[t].raised = 1
    /\ OneRun(samples)
    /\ Results(samples) = <<R720, R1080, R720>>
    /\ calls = << <<R720, R1080>>, <<R1080, R720>> >>

====
